---- MODULE Spec2Model ----
(***************************************************************************)
(* A model of src/main.py (daycare income/expense manager): the attendance *)
(* upsert-and-status protocol of IncomeExpenseDB and the attendance        *)
(* screens, and the date-range aggregation of the report screens.          *)
(*                                                                         *)
(* SQL values are records: a TEXT column holds Null or Text(s), s a        *)
(* sequence of character codes, so that Python's truthiness and SQLite's   *)
(* bytewise TEXT comparison are computed as the interpreter and the        *)
(* database compute them.  A table is the sequence of its rows in rowid    *)
(* order.                                                                  *)
(***************************************************************************)
EXTENDS Integers, Sequences, FiniteSets, TLC

\* ---------------------------------------------------------------- bounds
\* Subjects (child ids / employee ids) passed to the operations.
MaxSubject == 2
\* Days that pass after the first day.
MaxDay == 1
\* Seconds that pass after midnight on a day.
MaxTime == 1
\* Calls of a data operation in one behaviour.
MaxCalls == 3
\* Rows held by the income and expense tables together.
MaxRows == 2

Subjects == 1..MaxSubject

VARIABLES
    child_attendance,     \* table child_attendance: rows in rowid order
    employee_attendance,  \* table employee_attendance: rows in rowid order
    day,                  \* wall clock: days elapsed since StartDate
    now,                  \* wall clock: seconds since midnight
    outcome,              \* what the last call showed or raised
    lastCall,             \* history: the last call [op, sid, date, time]
    prevCall,             \* history: the call before the last one
    ncalls,               \* history: number of calls made
    rechecked,            \* history: a check-in overwrote a checked-out record
    income,               \* table income: rows in rowid order
    expense,              \* table expense: rows in rowid order
    report,               \* the report a report screen shows
    upload,               \* the last bulk upload: its file and what it reported
    expense_files,        \* table expense_files: rows in rowid order
    storage,              \* directory expense_files: stored path -> content
    sqlite_sequence,      \* AUTOINCREMENT: the last id given in a table
    fileOp,               \* history: the last call of add_expense / delete_expense
    users,                \* table users: rows in rowid order
    stack,                \* the screen the stacked widget shows
    login,                \* history: the last login attempt and what it showed
    customers,            \* table customers: rows in rowid order, data decoded
    employees,            \* table employees: rows in rowid order, data decoded
    listing,              \* what the last load of an attendance list showed
    assigned,             \* history: the customer ids given so far
    disk                  \* tables expense, expense_files as last committed

attendanceVars == <<child_attendance, employee_attendance, day, now, outcome,
                    lastCall, prevCall, ncalls, rechecked>>
financeVars == <<income, expense, report>>
importVars == <<upload>>
fileVars == <<expense_files, storage, sqlite_sequence, fileOp>>
userVars == <<users, stack, login>>
listVars == <<customers, employees, listing, assigned>>
extraVars == <<importVars, fileVars, userVars, listVars>>
vars == <<attendanceVars, financeVars, extraVars, disk>>

\* connection.commit(): what the connection changed in expense and
\* expense_files since the last commit reaches the file.
Commit == disk' = [expense |-> expense', expense_files |-> expense_files']

\* ------------------------------------------------------ Python / SQL values
Null == [null |-> TRUE, text |-> <<>>]
Text(s) == [null |-> FALSE, text |-> s]

\* Python truth value of None / str.
Truthy(v) == ~v.null /\ Len(v.text) > 0

\* A REAL value, or the NULL an aggregate returns (None in Python).
NoNumber == [null |-> TRUE, num |-> 0]
Number(n) == [null |-> FALSE, num |-> n]

\* Python truth value of None / float.
NumberTruthy(v) == ~v.null /\ v.num # 0

\* str.isdigit, on ASCII text.
isdigit(s) == s # <<>> /\ \A i \in DOMAIN s : s[i] \in 48..57

\* int(str) of a text of digits.
RECURSIVE int(_)
int(s) == IF s = <<>> THEN 0 ELSE 10 * int(SubSeq(s, 1, Len(s) - 1)) + (s[Len(s)] - 48)

\* ------------------------------------------------------------ QDate, QTime
StartDate == <<2024, 2, 28>>

isLeapYear(y) == (y % 4 = 0 /\ y % 100 # 0) \/ y % 400 = 0

daysInMonth(y, m) ==
    IF m = 2 THEN (IF isLeapYear(y) THEN 29 ELSE 28)
    ELSE IF m \in {4, 6, 9, 11} THEN 30 ELSE 31

addDay(d) ==
    IF d[3] < daysInMonth(d[1], d[2]) THEN <<d[1], d[2], d[3] + 1>>
    ELSE IF d[2] < 12 THEN <<d[1], d[2] + 1, 1>>
    ELSE <<d[1] + 1, 1, 1>>

RECURSIVE addDays(_, _)
addDays(d, n) == IF n = 0 THEN d ELSE addDays(addDay(d), n - 1)

currentDate == addDays(StartDate, day)
currentTime == now

Digit(n) == 48 + n
Pad2(n) == <<Digit((n \div 10) % 10), Digit(n % 10)>>
Pad4(n) == <<Digit((n \div 1000) % 10), Digit((n \div 100) % 10)>> \o Pad2(n % 100)

\* QDate.toString("yyyy-MM-dd")
dateToString(d) == Pad4(d[1]) \o <<45>> \o Pad2(d[2]) \o <<45>> \o Pad2(d[3])
\* QTime.toString("HH:mm:ss")
timeToString(t) ==
    Pad2(t \div 3600) \o <<58>> \o Pad2((t \div 60) % 60) \o <<58>> \o Pad2(t % 60)

\* SQLite's comparison of two TEXT values (BINARY collation: memcmp, then length).
RECURSIVE TextLeq(_, _)
TextLeq(a, b) ==
    IF a = <<>> THEN TRUE
    ELSE IF b = <<>> THEN FALSE
    ELSE IF Head(a) # Head(b) THEN Head(a) < Head(b)
    ELSE TextLeq(Tail(a), Tail(b))

\* ------------------------------------------------------------- child_attendance
\* cursor.fetchone() of a result set: a sequence holding the first row, or none.
fetchone(result) == IF result = <<>> THEN <<>> ELSE <<Head(result)>>

RECURSIVE SelectRows(_, _, _)
\* SELECT ... FROM child_attendance WHERE child_id = ? AND date = ?  (rowid order)
SelectRows(rows, child_id, date) ==
    IF rows = <<>> THEN <<>>
    ELSE (IF Head(rows).child_id = child_id /\ Head(rows).date = date
          THEN <<Head(rows)>> ELSE <<>>) \o SelectRows(Tail(rows), child_id, date)

\* UPDATE child_attendance SET check_in_time = ? WHERE id = ?
UpdateCheckIn(rows, time, id) ==
    [i \in DOMAIN rows |->
        IF rows[i].id = id THEN [rows[i] EXCEPT !.check_in_time = Text(time)] ELSE rows[i]]

\* UPDATE child_attendance SET check_out_time = ? WHERE id = ?
UpdateCheckOut(rows, time, id) ==
    [i \in DOMAIN rows |->
        IF rows[i].id = id THEN [rows[i] EXCEPT !.check_out_time = Text(time)] ELSE rows[i]]

\* INSERT INTO child_attendance (child_id, date, check_in_time) VALUES (?, ?, ?)
InsertCheckIn(rows, child_id, date, time) ==
    Append(rows, [id |-> Len(rows) + 1, child_id |-> child_id, date |-> date,
                  check_in_time |-> Text(time), check_out_time |-> Null])

\* Mutant: the lookup is skipped and every check-in inserts.
check_in_child_always_insert(rows, child_id) ==
    [rows |-> InsertCheckIn(rows, child_id, dateToString(currentDate),
                            timeToString(currentTime)),
     outcome |-> "none"]

\* Mutant: an existing record keeps its first check-in time.
check_in_child_keep_first(rows, child_id) ==
    LET date == dateToString(currentDate)
        time == timeToString(currentTime)
        record == fetchone(SelectRows(rows, child_id, date))
    IN  IF record # <<>>
        THEN [rows |-> rows, outcome |-> "none"]
        ELSE [rows |-> InsertCheckIn(rows, child_id, date, time), outcome |-> "none"]

\* Mutant: a check-in on an existing record also clears its check-out time.
check_in_child_reopen(rows, child_id) ==
    LET date == dateToString(currentDate)
        time == timeToString(currentTime)
        record == fetchone(SelectRows(rows, child_id, date))
    IN  IF record # <<>>
        THEN [rows |-> [i \in DOMAIN rows |->
                           IF rows[i].id = record[1].id
                           THEN [rows[i] EXCEPT !.check_in_time = Text(time),
                                                !.check_out_time = Null]
                           ELSE rows[i]],
              outcome |-> "none"]
        ELSE [rows |-> InsertCheckIn(rows, child_id, date, time), outcome |-> "none"]

\* Mutant: a check-in that inserts first deletes the child's older records.
check_in_child_one_record(rows, child_id) ==
    LET date == dateToString(currentDate)
        time == timeToString(currentTime)
        record == fetchone(SelectRows(rows, child_id, date))
    IN  IF record # <<>>
        THEN [rows |-> UpdateCheckIn(rows, time, record[1].id), outcome |-> "none"]
        ELSE [rows |-> InsertCheckIn(SelectSeq(rows, LAMBDA r : r.child_id # child_id),
                                     child_id, date, time),
              outcome |-> "none"]

\* Mutant: the lookup of a check-in is by child only, whatever the day.
check_in_child_any_day(rows, child_id) ==
    LET date == dateToString(currentDate)
        time == timeToString(currentTime)
        record == fetchone(SelectSeq(rows, LAMBDA r : r.child_id = child_id))
    IN  IF record # <<>>
        THEN [rows |-> UpdateCheckIn(rows, time, record[1].id), outcome |-> "none"]
        ELSE [rows |-> InsertCheckIn(rows, child_id, date, time), outcome |-> "none"]

\* Mutant: a check-in that inserts leaves the check-in time of the new record unset.
check_in_child_no_time(rows, child_id) ==
    LET date == dateToString(currentDate)
        time == timeToString(currentTime)
        record == fetchone(SelectRows(rows, child_id, date))
    IN  IF record # <<>>
        THEN [rows |-> UpdateCheckIn(rows, time, record[1].id), outcome |-> "none"]
        ELSE [rows |-> Append(rows, [id |-> Len(rows) + 1, child_id |-> child_id,
                                     date |-> date, check_in_time |-> Null,
                                     check_out_time |-> Null]),
              outcome |-> "none"]

\* IncomeExpenseDB.check_in_child on table `rows`: the table and the dialog after it.
check_in_child(rows, child_id) ==
    LET date == dateToString(currentDate)
        time == timeToString(currentTime)
        record == fetchone(SelectRows(rows, child_id, date))
    IN  IF record # <<>>
        THEN [rows |-> UpdateCheckIn(rows, time, record[1].id), outcome |-> "none"]
        ELSE [rows |-> InsertCheckIn(rows, child_id, date, time), outcome |-> "none"]

\* Mutant: the UPDATE names the wrong column.
check_out_child_wrong_column(rows, child_id) ==
    LET date == dateToString(currentDate)
        time == timeToString(currentTime)
        record == fetchone(SelectRows(rows, child_id, date))
    IN  IF record # <<>>
        THEN [rows |-> UpdateCheckIn(rows, time, record[1].id), outcome |-> "none"]
        ELSE [rows |-> rows, outcome |-> "warning: Attendance Error"]

\* Mutant: a check-out without a record creates one.
check_out_child_upsert(rows, child_id) ==
    LET date == dateToString(currentDate)
        time == timeToString(currentTime)
        record == fetchone(SelectRows(rows, child_id, date))
    IN  IF record # <<>>
        THEN [rows |-> UpdateCheckOut(rows, time, record[1].id), outcome |-> "none"]
        ELSE [rows |-> Append(rows, [id |-> Len(rows) + 1, child_id |-> child_id,
                                     date |-> date, check_in_time |-> Null,
                                     check_out_time |-> Text(time)]),
              outcome |-> "warning: Attendance Error"]

\* Mutant: the lookup forgets `AND date = ?` and takes the child's first record.
check_out_child_any_day(rows, child_id) ==
    LET time == timeToString(currentTime)
        mine == SelectSeq(rows, LAMBDA r : r.child_id = child_id)
    IN  IF mine # <<>>
        THEN [rows |-> UpdateCheckOut(rows, time, mine[1].id), outcome |-> "none"]
        ELSE [rows |-> rows, outcome |-> "warning: Attendance Error"]

\* Mutant: a second check-out takes the check-out back.
check_out_child_toggle(rows, child_id) ==
    LET date == dateToString(currentDate)
        time == timeToString(currentTime)
        record == fetchone(SelectRows(rows, child_id, date))
    IN  IF record # <<>>
        THEN [rows |-> [i \in DOMAIN rows |->
                          IF rows[i].id = record[1].id
                          THEN [rows[i] EXCEPT !.check_out_time =
                                  IF rows[i].check_out_time.null THEN Text(time) ELSE Null]
                          ELSE rows[i]],
              outcome |-> "none"]
        ELSE [rows |-> rows, outcome |-> "warning: Attendance Error"]

\* IncomeExpenseDB.check_out_child on table `rows`.
check_out_child(rows, child_id) ==
    LET date == dateToString(currentDate)
        time == timeToString(currentTime)
        record == fetchone(SelectRows(rows, child_id, date))
    IN  IF record # <<>>
        THEN [rows |-> UpdateCheckOut(rows, time, record[1].id), outcome |-> "none"]
        ELSE [rows |-> rows, outcome |-> "warning: Attendance Error"]

\* IncomeExpenseDB.get_child_attendance: <<>> for None, else a one-element
\* sequence holding the dict.
get_child_attendance(child_id, date) ==
    LET result == fetchone(SelectRows(child_attendance, child_id, date))
    IN  IF result # <<>>
        THEN <<[check_in_time |-> result[1].check_in_time,
                check_out_time |-> result[1].check_out_time]>>
        ELSE <<>>

\* The branches of update_status on the value get_*_attendance returned
\* (the same text in both screens, "Checked" for children, "Clocked" for
\* employees): the status shown.
StatusOf(attendance, word) ==
    IF attendance # <<>>
    THEN IF Truthy(attendance[1].check_in_time) /\ ~Truthy(attendance[1].check_out_time)
         THEN <<word, "In">>
         ELSE IF Truthy(attendance[1].check_in_time) /\ Truthy(attendance[1].check_out_time)
         THEN <<word, "Out">>
         ELSE <<"Absent">>
    ELSE <<"Absent">>

\* ChildAttendanceScreen.update_status, for the day `date`: the text set.
ChildAttendanceScreen_update_status(child_id, date) ==
    StatusOf(get_child_attendance(child_id, date), "Checked")

\* ---------------------------------------------------------- employee_attendance
\* The methods of class IncomeExpenseDB (the class body ends at line 428;
\* add_employee of line 372 belongs to the class nested at line 371).
IncomeExpenseDB_methods ==
    {"__init__", "create_tables", "check_in_child", "check_out_child",
     "get_child_attendance", "validate_user", "add_income", "get_income",
     "update_income", "delete_income", "add_expense", "save_expense_file",
     "get_expense_files", "get_expenses", "update_expense", "delete_expense",
     "add_customer", "get_customers", "update_customer", "delete_customer",
     "get_employees", "update_employee", "delete_employee", "add_bulk_entries"}

\* The attributes of EmployeeAttendanceScreen.cursor: the screen is a QWidget
\* and sets no cursor attribute, so self.cursor is the method QWidget.cursor,
\* which has no execute.
EmployeeAttendanceScreen_cursor_attrs == {"__call__"}

\* EmployeeAttendanceScreen.clock_in_employee: the definition of line 500
\* replaces that of line 492.  self.cursor.execute raises AttributeError,
\* which `except sqlite3.Error` does not catch; otherwise the statements are
\* those of check_in_child on employee_attendance.
clock_in_employee(rows, employee_id) ==
    IF "execute" \notin EmployeeAttendanceScreen_cursor_attrs
    THEN [rows |-> rows, outcome |-> "raise: AttributeError"]
    ELSE check_in_child(rows, employee_id)

\* EmployeeAttendanceScreen.clock_out_employee: the definition of line 521
\* replaces that of line 496.
clock_out_employee(rows, employee_id) ==
    IF "execute" \notin EmployeeAttendanceScreen_cursor_attrs
    THEN [rows |-> rows, outcome |-> "raise: AttributeError"]
    ELSE check_out_child(rows, employee_id)

\* EmployeeAttendanceScreen.get_employee_attendance (a method of the screen).
get_employee_attendance(employee_id, date) ==
    IF "execute" \notin EmployeeAttendanceScreen_cursor_attrs
    THEN <<"raise: AttributeError">>
    ELSE LET result == fetchone(SelectRows(employee_attendance, employee_id, date))
         IN  IF result # <<>>
             THEN <<[check_in_time |-> result[1].check_in_time,
                     check_out_time |-> result[1].check_out_time]>>
             ELSE <<>>

\* EmployeeAttendanceScreen.update_status: it asks self.parent.db, an
\* IncomeExpenseDB, for get_employee_attendance.
EmployeeAttendanceScreen_update_status(employee_id, date) ==
    IF "get_employee_attendance" \notin IncomeExpenseDB_methods
    THEN <<"raise: AttributeError">>
    ELSE StatusOf(get_employee_attendance(employee_id, date), "Clocked")

\* ------------------------------------------------------------------ actions
NoCall == [op |-> "none", sid |-> 0, date |-> <<>>, time |-> <<>>]
Call(op, sid) ==
    [op |-> op, sid |-> sid, date |-> dateToString(currentDate),
     time |-> timeToString(currentTime)]

Logged(op, sid) ==
    /\ ncalls < MaxCalls
    /\ ncalls' = ncalls + 1
    /\ prevCall' = lastCall
    /\ lastCall' = Call(op, sid)

CheckInChild(s) ==
    LET r == check_in_child(child_attendance, s)
        hit == fetchone(SelectRows(child_attendance, s, dateToString(currentDate)))
    IN  /\ Logged("check_in", s)
        /\ child_attendance' = r.rows
        /\ outcome' = r.outcome
        /\ rechecked' = (rechecked \/ (hit # <<>> /\ ~hit[1].check_out_time.null))
        /\ UNCHANGED <<employee_attendance, day, now>>
        /\ UNCHANGED financeVars
        /\ UNCHANGED extraVars
        /\ Commit

CheckOutChild(s) ==
    LET r == check_out_child(child_attendance, s)
    IN  /\ Logged("check_out", s)
        /\ child_attendance' = r.rows
        /\ outcome' = r.outcome
        /\ UNCHANGED <<employee_attendance, day, now, rechecked>>
        /\ UNCHANGED financeVars
        /\ UNCHANGED extraVars
        /\ IF r.outcome = "none" THEN Commit ELSE UNCHANGED disk

ClockInEmployee(e) ==
    LET r == clock_in_employee(employee_attendance, e)
    IN  /\ Logged("clock_in", e)
        /\ employee_attendance' = r.rows
        /\ outcome' = r.outcome
        /\ UNCHANGED <<child_attendance, day, now, rechecked>>
        /\ UNCHANGED financeVars
        /\ UNCHANGED extraVars
        /\ IF r.outcome = "none" THEN Commit ELSE UNCHANGED disk

ClockOutEmployee(e) ==
    LET r == clock_out_employee(employee_attendance, e)
    IN  /\ Logged("clock_out", e)
        /\ employee_attendance' = r.rows
        /\ outcome' = r.outcome
        /\ UNCHANGED <<child_attendance, day, now, rechecked>>
        /\ UNCHANGED financeVars
        /\ UNCHANGED extraVars
        /\ IF r.outcome = "none" THEN Commit ELSE UNCHANGED disk

\* A second passes.
Tick ==
    /\ now < MaxTime
    /\ now' = now + 1
    /\ UNCHANGED <<child_attendance, employee_attendance, day, outcome,
                   lastCall, prevCall, ncalls, rechecked>>
    /\ UNCHANGED financeVars
    /\ UNCHANGED extraVars
    /\ UNCHANGED disk

\* Midnight passes.
NextDay ==
    /\ day < MaxDay
    /\ day' = day + 1
    /\ now' = 0
    /\ UNCHANGED <<child_attendance, employee_attendance, outcome,
                   lastCall, prevCall, ncalls, rechecked>>
    /\ UNCHANGED financeVars
    /\ UNCHANGED extraVars
    /\ UNCHANGED disk

\* ------------------------------------------------------- income, expense, reports
\* Dates picked in the date editors of the dialogs and report screens.
SampleDates == {<<2024, 3, 1>>, <<2024, 9, 30>>, <<2024, 10, 1>>}
\* Amounts typed into the dialogs (float(text) takes any sign).
Amounts == {-1, 1}

\* The rows of the table a report names.
TableRows(table) == IF table = "income" THEN income ELSE expense

\* ... WHERE date BETWEEN ? AND ?  (date is TEXT, the bounds are str)
SelectBetween(rows, start_date, end_date) ==
    SelectSeq(rows, LAMBDA r : TextLeq(start_date, r.date) /\ TextLeq(r.date, end_date))

RECURSIVE SumAmounts(_)
SumAmounts(rows) == IF rows = <<>> THEN 0 ELSE Head(rows).amount + SumAmounts(Tail(rows))

\* SELECT SUM(amount): NULL over no row.
SUM(rows) == IF rows = <<>> THEN NoNumber ELSE Number(SumAmounts(rows))

\* Mutant: the aggregate is returned as fetched.
get_total_as_fetched(table, start_date, end_date) ==
    SUM(SelectBetween(TableRows(table), start_date, end_date))

\* Mutant: the range is half-open, date >= start AND date < end.
get_total_half_open(table, start_date, end_date) ==
    LET result == SUM(SelectSeq(TableRows(table),
                        LAMBDA r : /\ TextLeq(start_date, r.date)
                                   /\ TextLeq(r.date, end_date)
                                   /\ r.date # end_date))
    IN  IF NumberTruthy(result) THEN result ELSE Number(0)

\* ProfitLossScreen.get_total (BalanceSheetScreen, CashFlowScreen and
\* TaxSummaryScreen hold the same text).
get_total(table, start_date, end_date) ==
    LET result == SUM(SelectBetween(TableRows(table), start_date, end_date))
    IN  IF NumberTruthy(result) THEN result ELSE Number(0)

\* float - float; None as an operand raises TypeError and no report is set.
Minus(a, b) == IF a.null \/ b.null THEN NoNumber ELSE Number(a.num - b.num)

NoReport == [screen |-> "none"]

\* ProfitLossScreen.generate_report on the dates of the two date editors: the
\* text set, as its fields.
generate_report(screen, start, end) ==
    LET start_date == dateToString(start)
        end_date == dateToString(end)
        total_income == get_total("income", start_date, end_date)
        total_expenses == get_total("expense", start_date, end_date)
    IN  IF total_income.null \/ total_expenses.null THEN report
        ELSE [screen |-> screen, start_date |-> start_date, end_date |-> end_date,
              total_income |-> total_income, total_expenses |-> total_expenses,
              net |-> Minus(total_income, total_expenses)]

\* ManageIncomeScreen.add_income with the dialog accepted: IncomeDialog.get_data,
\* then IncomeExpenseDB.add_income.
AddIncome(amount, d) ==
    /\ Len(income) + Len(expense) < MaxRows
    /\ income' = Append(income, [id |-> Len(income) + 1, amount |-> amount,
                                 date |-> dateToString(d)])
    /\ UNCHANGED <<expense, report>>
    /\ UNCHANGED attendanceVars
    /\ UNCHANGED extraVars
    /\ Commit

\* IncomeExpenseDB.add_expense of an amount and a date in yyyy-MM-dd form, no
\* files passed.  (ManageExpenseScreen.add_expense does not get this far:
\* ExpenseDialog calls addRow on a QVBoxLayout and raises AttributeError.)
AddExpense(amount, d) ==
    /\ Len(income) + Len(expense) < MaxRows
    /\ expense' = Append(expense, [id |-> Len(expense) + 1, amount |-> amount,
                                   date |-> dateToString(d)])
    /\ UNCHANGED <<income, report>>
    /\ UNCHANGED attendanceVars
    /\ UNCHANGED extraVars
    /\ Commit

ProfitLossReport(start, end) ==
    /\ report' = generate_report("ProfitLoss", start, end)
    /\ UNCHANGED <<income, expense>>
    /\ UNCHANGED attendanceVars
    /\ UNCHANGED extraVars
    /\ UNCHANGED disk

\* ------------------------------------------------------ expense attachments
\* Expenses added in one behaviour, and files passed with one expense.
MaxExpenses == 2
MaxFiles == 2

\* The files picked for attachment: "/a/r", "/b/r", "/a/1_r".  The content
\* of a file is named by the path it was picked at.
SourceFiles == {<<47, 97, 47, 114>>, <<47, 98, 47, 114>>, <<47, 97, 47, 49, 95, 114>>}
FileLists == UNION {[1..n -> SourceFiles] : n \in 0..MaxFiles}

\* str(n) of a positive int.
RECURSIVE str(_)
str(n) == IF n < 10 THEN <<Digit(n)>> ELSE str(n \div 10) \o <<Digit(n % 10)>>

\* os.path.basename: the text after the last '/'.
basename(path) ==
    LET slashes == {i \in DOMAIN path : path[i] = 47}
    IN  IF slashes = {} THEN path
        ELSE SubSeq(path, (CHOOSE i \in slashes : \A k \in slashes : k <= i) + 1, Len(path))

\* os.path.join('expense_files', name)
JoinExpenseFiles(name) ==
    <<101, 120, 112, 101, 110, 115, 101, 95, 102, 105, 108, 101, 115, 47>> \o name

\* The directory before any file is stored.
EmptyDir == [p \in {} |-> <<>>]

\* shutil.copy(src, dest) into the directory: dest is created or overwritten.
Copy(dir, src, dest) ==
    [p \in DOMAIN dir \cup {dest} |-> IF p = dest THEN src ELSE dir[p]]

\* os.remove(path) when os.path.exists(path).
Remove(dir, path) == [p \in DOMAIN dir \ {path} |-> dir[p]]

\* The database and the directory as the attachment methods see them.
Files == [expense |-> expense, expense_files |-> expense_files,
          storage |-> storage, sqlite_sequence |-> sqlite_sequence]

\* IncomeExpenseDB.save_expense_file on `db`: the file is copied, then its
\* link row is inserted.
save_expense_file(db, expense_id, file_path) ==
    LET base_name == basename(file_path)
        unique_name == str(expense_id) \o <<95>> \o base_name
        dest_path == JoinExpenseFiles(unique_name)
        id == db.sqlite_sequence.expense_files + 1
    IN  [db EXCEPT !.storage = Copy(@, file_path, dest_path),
                   !.expense_files = Append(@, [id |-> id, expense_id |-> expense_id,
                                                file_path |-> dest_path,
                                                file_name |-> base_name]),
                   !.sqlite_sequence.expense_files = id]

RECURSIVE SaveFiles(_, _, _)
\* for file_path in files: self.save_expense_file(expense_id, file_path)
SaveFiles(db, expense_id, files) ==
    IF files = <<>> THEN db
    ELSE SaveFiles(save_expense_file(db, expense_id, Head(files)), expense_id, Tail(files))

\* IncomeExpenseDB.add_expense with a list of files, on `db`.
add_expense_files(db, amount, date, files) ==
    LET expense_id == db.sqlite_sequence.expense + 1
        inserted == [db EXCEPT !.expense = Append(@, [id |-> expense_id, amount |-> amount,
                                                      date |-> date]),
                               !.sqlite_sequence.expense = expense_id]
    IN  SaveFiles(inserted, expense_id, files)

\* IncomeExpenseDB.get_expense_files on `db`.
get_expense_files(db, expense_id) ==
    SelectSeq(db.expense_files, LAMBDA r : r.expense_id = expense_id)

RECURSIVE RemoveFiles(_, _)
\* for file in files: if os.path.exists(file['file_path']): os.remove(...)
RemoveFiles(dir, files) ==
    IF files = <<>> THEN dir
    ELSE RemoveFiles(IF Head(files).file_path \in DOMAIN dir
                     THEN Remove(dir, Head(files).file_path) ELSE dir,
                     Tail(files))

\* Mutant: only the first attached file is removed from the directory.
delete_expense_first_file(db, expense_id) ==
    LET files == get_expense_files(db, expense_id)
        removed == [db EXCEPT !.storage =
                       RemoveFiles(@, IF files = <<>> THEN <<>> ELSE <<Head(files)>>)]
        unlinked == [removed EXCEPT !.expense_files =
                        SelectSeq(@, LAMBDA r : r.expense_id # expense_id)]
        deleted == [unlinked EXCEPT !.expense = SelectSeq(@, LAMBDA r : r.id # expense_id)]
    IN  <<removed, unlinked, deleted>>

\* IncomeExpenseDB.delete_expense on `db`: the database and the directory
\* after the files are removed, after the link rows are deleted, and after
\* the expense row is deleted.
delete_expense(db, expense_id) ==
    LET files == get_expense_files(db, expense_id)
        removed == [db EXCEPT !.storage = RemoveFiles(@, files)]
        unlinked == [removed EXCEPT !.expense_files =
                        SelectSeq(@, LAMBDA r : r.expense_id # expense_id)]
        deleted == [unlinked EXCEPT !.expense = SelectSeq(@, LAMBDA r : r.id # expense_id)]
    IN  <<removed, unlinked, deleted>>

NoFileOp == [op |-> "none"]

\* add_expense(1.0, type, "2024-03-01", comments, files)
AddExpenseWithFiles(files) ==
    /\ sqlite_sequence.expense < MaxExpenses
    /\ \E db \in {add_expense_files(Files, 1, dateToString(<<2024, 3, 1>>), files)} :
        /\ expense' = db.expense
        /\ expense_files' = db.expense_files
        /\ storage' = db.storage
        /\ sqlite_sequence' = db.sqlite_sequence
        /\ fileOp' = [op |-> "add_expense", expense_id |-> db.sqlite_sequence.expense,
                      files |-> files]
    /\ UNCHANGED <<income, report>>
    /\ UNCHANGED attendanceVars
    /\ UNCHANGED importVars
    /\ UNCHANGED <<userVars, listVars>>
    /\ Commit

\* delete_expense(expense_id)
DeleteExpense(expense_id) ==
    /\ \E steps \in {delete_expense(Files, expense_id)} :
        /\ expense' = steps[3].expense
        /\ expense_files' = steps[3].expense_files
        /\ storage' = steps[3].storage
        /\ fileOp' = [op |-> "delete_expense", expense_id |-> expense_id, steps |-> steps]
    /\ UNCHANGED <<income, report, sqlite_sequence>>
    /\ UNCHANGED attendanceVars
    /\ UNCHANGED importVars
    /\ UNCHANGED <<userVars, listVars>>
    /\ Commit

\* ------------------------------------------------- storage errors in delete
\* The statement of delete_expense that fails: the SELECT of
\* get_expense_files, the os.remove of the k-th file, the DELETE of the link
\* rows, the DELETE of the expense row, or the commit.
Faults ==
    {[at |-> a, k |-> 0] : a \in {"select", "delete_links", "delete_expense", "commit"}}
        \cup {[at |-> "remove", k |-> k] : k \in 1..MaxFiles}

\* get_expense_files when its SELECT raises sqlite3.Error: the error is shown
\* and [] returned.
get_expense_files_fault(db, expense_id, fault) ==
    IF fault.at = "select" THEN <<>> ELSE get_expense_files(db, expense_id)

\* os.remove can fail on the k-th file: the file is there when its turn comes.
CanFail(db, expense_id, fault) ==
    fault.at = "remove" =>
        LET files == get_expense_files(db, expense_id)
        IN  /\ fault.k <= Len(files)
            /\ files[fault.k].file_path
                   \in DOMAIN RemoveFiles(db.storage, SubSeq(files, 1, fault.k - 1))

\* IncomeExpenseDB.delete_expense when the statement `fault` fails: the
\* connection's tables and the directory it leaves, and what it shows.
\* OSError is not caught by `except sqlite3.Error`; no branch rolls back.
delete_expense_fault(db, expense_id, fault) ==
    LET files == get_expense_files_fault(db, expense_id, fault)
        removed == [db EXCEPT !.storage = RemoveFiles(@, files)]
        unlinked == [removed EXCEPT !.expense_files =
                        SelectSeq(@, LAMBDA r : r.expense_id # expense_id)]
        deleted == [unlinked EXCEPT !.expense = SelectSeq(@, LAMBDA r : r.id # expense_id)]
    IN  IF fault.at = "remove"
        THEN [db |-> [db EXCEPT !.storage =
                         RemoveFiles(@, SubSeq(files, 1, fault.k - 1))],
              outcome |-> "raise: OSError"]
        ELSE IF fault.at = "delete_links"
        THEN [db |-> removed, outcome |-> "critical: Database Error"]
        ELSE IF fault.at = "delete_expense"
        THEN [db |-> unlinked, outcome |-> "critical: Database Error"]
        ELSE [db |-> deleted, outcome |-> "critical: Database Error"]

\* delete_expense(expense_id) of an expense there is, with a statement failing.
\* Only the failing SELECT lets the commit be reached.
DeleteExpenseFails(expense_id, fault) ==
    /\ \E i \in DOMAIN expense : expense[i].id = expense_id
    /\ CanFail(Files, expense_id, fault)
    /\ \E r \in {delete_expense_fault(Files, expense_id, fault)} :
        /\ expense' = r.db.expense
        /\ expense_files' = r.db.expense_files
        /\ storage' = r.db.storage
        /\ fileOp' = [op |-> "delete_expense: error", expense_id |-> expense_id,
                      fault |-> fault, outcome |-> r.outcome,
                      row |-> CHOOSE row \in {expense[i] : i \in DOMAIN expense} :
                                  row.id = expense_id,
                      links |-> get_expense_files(Files, expense_id),
                      files |-> {p \in DOMAIN storage :
                                    \E i \in DOMAIN expense_files :
                                        /\ expense_files[i].expense_id = expense_id
                                        /\ expense_files[i].file_path = p}]
    /\ UNCHANGED <<income, report, sqlite_sequence>>
    /\ UNCHANGED attendanceVars
    /\ UNCHANGED importVars
    /\ UNCHANGED <<userVars, listVars>>
    /\ IF fault.at = "select" THEN Commit ELSE UNCHANGED disk

\* -------------------------------------------------------------- bulk upload
\* Rows in one CSV file, and rows the two tables hold together after uploads.
MaxBatch == 3

RequiredFields == {"Amount", "Type", "Date", "Comments"}

\* reader.fieldnames: None for a file without a header line, else the header.
NoFieldnames == [null |-> TRUE, names |-> {}]
Fieldnames(names) == [null |-> FALSE, names |-> names]
Headers == {NoFieldnames, Fieldnames(RequiredFields), Fieldnames({"Amount", "Type", "Date"})}

\* The lines of a file as csv.DictReader reads them: a cell is the text of
\* the field, or None (restval) when the line is shorter than the header.
\*   "1,F,2024-03-01,"    a complete row
\*   "x,F,2024-03-01,"    a non-numeric amount
\*   "1"                  a line with the amount only
\*   "1,F,2024-3-1,"      a date that is not yyyy-MM-dd
SampleRows ==
    {[Amount |-> Text(<<49>>), Type |-> Text(<<70>>),
      Date |-> Text(dateToString(<<2024, 3, 1>>)), Comments |-> Text(<<>>)],
     [Amount |-> Text(<<120>>), Type |-> Text(<<70>>),
      Date |-> Text(dateToString(<<2024, 3, 1>>)), Comments |-> Text(<<>>)],
     [Amount |-> Text(<<49>>), Type |-> Null, Date |-> Null, Comments |-> Null],
     [Amount |-> Text(<<49>>), Type |-> Text(<<70>>),
      Date |-> Text(<<50, 48, 50, 52, 45, 51, 45, 49>>), Comments |-> Text(<<>>)]}

\* float(x) for x None or a str: the number of an optionally signed text of
\* digits (the texts of SampleRows; float takes more forms than these).
float(v) ==
    IF v.null THEN [ok |-> FALSE, error |-> "TypeError", num |-> 0]
    ELSE LET signed == v.text # <<>> /\ v.text[1] \in {43, 45}
             digits == IF signed THEN Tail(v.text) ELSE v.text
         IN  IF isdigit(digits)
             THEN [ok |-> TRUE, error |-> "",
                   num |-> IF signed /\ v.text[1] = 45 THEN 0 - int(digits) ELSE int(digits)]
             ELSE [ok |-> FALSE, error |-> "ValueError", num |-> 0]

\* INSERT INTO income / expense (amount, type, date, comments): amount, type
\* and date are NOT NULL, and a None bound to one of them makes the INSERT
\* raise sqlite3.IntegrityError, which the method catches and shows.
InsertTransaction(rows, amount, type, date, comments) ==
    IF type.null \/ date.null
    THEN [rows |-> rows, outcome |-> "critical: Database Error"]
    ELSE [rows |-> Append(rows, [id |-> Len(rows) + 1, amount |-> amount,
                                 date |-> date.text]),
          outcome |-> "none"]

\* IncomeExpenseDB.add_income on table `rows`; it returns None either way.
add_income(rows, amount, income_type, date, comments) ==
    InsertTransaction(rows, amount, income_type, date, comments)

\* IncomeExpenseDB.add_expense on table `rows`, files=None.
add_expense(rows, amount, expense_type, date, comments) ==
    InsertTransaction(rows, amount, expense_type, date, comments)

\* row[field] of a DictReader row: KeyError when the header lacks the field.
HasKeys(fieldnames, fields) == fields \subseteq fieldnames.names

\* The body of the loop of process_csv for row number idx, on the running
\* counts and tables `acc`.
ProcessRow(acc, idx, row, entry_type, fieldnames) ==
    LET amount == float(row.Amount)
        failed(e) == [acc EXCEPT !.error_count = @ + 1,
                                 !.errors = Append(@, [idx |-> idx, error |-> e])]
    IN  IF ~HasKeys(fieldnames, {"Amount"}) THEN failed("KeyError")
        ELSE IF ~amount.ok THEN failed(amount.error)
        ELSE IF ~HasKeys(fieldnames, {"Type", "Date", "Comments"}) THEN failed("KeyError")
        ELSE IF entry_type = "income"
        THEN LET r == add_income(acc.income, amount.num, row.Type, row.Date, row.Comments)
             IN  [acc EXCEPT !.income = r.rows,
                             !.dialogs = IF r.outcome = "none" THEN @ ELSE @ + 1,
                             !.success_count = @ + 1]
        ELSE LET r == add_expense(acc.expense, amount.num, row.Type, row.Date, row.Comments)
             IN  [acc EXCEPT !.expense = r.rows,
                             !.dialogs = IF r.outcome = "none" THEN @ ELSE @ + 1,
                             !.success_count = @ + 1]

RECURSIVE ProcessRows(_, _, _, _, _)
\* for idx, row in enumerate(reader, start=1)
ProcessRows(acc, idx, rows, entry_type, fieldnames) ==
    IF idx > Len(rows) THEN acc
    ELSE ProcessRows(ProcessRow(acc, idx, rows[idx], entry_type, fieldnames),
                     idx + 1, rows, entry_type, fieldnames)

\* The counts and tables before the first row.
StartOfUpload ==
    [income |-> income, expense |-> expense, success_count |-> 0,
     error_count |-> 0, errors |-> <<>>, dialogs |-> 0]

\* Mutant: the Comments column is optional, and read as empty when absent.
process_csv_optional_comments(entry_type, fieldnames, rows) ==
    IF fieldnames.null
    THEN StartOfUpload @@ [outcome |-> "raise: TypeError"]
    ELSE IF ~({"Amount", "Type", "Date"} \subseteq fieldnames.names)
    THEN StartOfUpload @@ [outcome |-> "warning: CSV Error"]
    ELSE ProcessRows(StartOfUpload, 1, rows, entry_type, Fieldnames(RequiredFields))
             @@ [outcome |-> "status"]

\* Mutant: the first failing row ends the loop.
process_csv_stop_at_error(entry_type, fieldnames, rows) ==
    IF fieldnames.null
    THEN StartOfUpload @@ [outcome |-> "raise: TypeError"]
    ELSE IF ~(RequiredFields \subseteq fieldnames.names)
    THEN StartOfUpload @@ [outcome |-> "warning: CSV Error"]
    ELSE LET bad == {i \in DOMAIN rows : ~float(rows[i].Amount).ok}
             stop == IF bad = {} THEN Len(rows)
                     ELSE CHOOSE i \in bad : \A j \in bad : i <= j
         IN  ProcessRows(StartOfUpload, 1, SubSeq(rows, 1, stop), entry_type, fieldnames)
                 @@ [outcome |-> "status"]

\* BulkUploadDialog.process_csv on the header and the rows of the file: the
\* tables after it, the counts of the status message, and what was shown.
\* issubset(None) raises TypeError before any row is read.
process_csv(entry_type, fieldnames, rows) ==
    IF fieldnames.null
    THEN StartOfUpload @@ [outcome |-> "raise: TypeError"]
    ELSE IF ~(RequiredFields \subseteq fieldnames.names)
    THEN StartOfUpload @@ [outcome |-> "warning: CSV Error"]
    ELSE ProcessRows(StartOfUpload, 1, rows, entry_type, fieldnames)
             @@ [outcome |-> "status"]

NoUpload == [outcome |-> "none"]

\* The files of at most MaxBatch rows.
Batches == UNION {[1..n -> SampleRows] : n \in 0..MaxBatch}

\* BulkUploadDialog.select_file with a file chosen, the dialog opened for
\* entry_type.  A file without a header line has no rows either.
BulkUpload(entry_type, fieldnames, rows) ==
    /\ Len(income) + Len(expense) + Len(rows) <= MaxBatch
    /\ fieldnames.null => rows = <<>>
    /\ \E r \in {process_csv(entry_type, fieldnames, rows)} :
        /\ income' = r.income
        /\ expense' = r.expense
        /\ upload' = [entry_type |-> entry_type, fieldnames |-> fieldnames,
                      rows |-> rows, outcome |-> r.outcome,
                      success_count |-> r.success_count,
                      error_count |-> r.error_count, errors |-> r.errors,
                      dialogs |-> r.dialogs]
        /\ UNCHANGED report
        /\ UNCHANGED attendanceVars
        /\ UNCHANGED fileVars
        /\ UNCHANGED <<userVars, listVars>>
        /\ IF r.income # income \/ r.expense # expense THEN Commit ELSE UNCHANGED disk

\* -------------------------------------------------------------------- users
MaxUsers == 2

\* "admin", "password": the row create_tables inserts into an empty users table
DefaultUser == [username |-> <<97, 100, 109, 105, 110>>,
                password |-> <<112, 97, 115, 115, 119, 111, 114, 100>>]

\* usernames "admin", "bob" and passwords "password", "pw" of stored rows
StoredUsernames == {DefaultUser.username, <<98, 111, 98>>}
StoredPasswords == {DefaultUser.password, <<112, 119>>}

\* what is typed into the login form: "admin", "Admin", "bob" / "password", "pw", ""
TypedUsernames == StoredUsernames \cup {<<65, 100, 109, 105, 110>>}
TypedPasswords == StoredPasswords \cup {<<>>}

\* The users table of the database file the program opens: no statement of
\* the program inserts, updates or deletes a user besides the default row, so
\* any other row was in the file already.  username is UNIQUE.
UserTables ==
    {t \in UNION {[1..n -> [id : 1..MaxUsers, username : StoredUsernames,
                            password : StoredPasswords]] : n \in 0..MaxUsers} :
        /\ \A i \in DOMAIN t : t[i].id = i
        /\ \A i, j \in DOMAIN t : t[i].username = t[j].username => i = j}

\* create_tables on the users table: the default user when no user exists
create_tables(rows) ==
    IF Len(rows) = 0
    THEN <<[id |-> 1, username |-> DefaultUser.username, password |-> DefaultUser.password]>>
    ELSE rows

\* SELECT * FROM users WHERE username = ? AND password = ?
SelectUser(rows, username, password) ==
    SelectSeq(rows, LAMBDA r : r.username = username /\ r.password = password)

\* validate_user comparing the username only
validate_user_by_name(rows, username, password, error) ==
    IF error
    THEN [result |-> FALSE, dialogs |-> <<"critical: Database Error">>]
    ELSE [result |-> \E i \in DOMAIN rows : rows[i].username = username,
          dialogs |-> <<>>]

\* validate_user; error: the SELECT raises sqlite3.Error
validate_user(rows, username, password, error) ==
    IF error
    THEN [result |-> FALSE, dialogs |-> <<"critical: Database Error">>]
    ELSE [result |-> fetchone(SelectUser(rows, username, password)) # <<>>,
          dialogs |-> <<>>]

NoLogin == [op |-> "none"]

\* LoginScreen.handle_login with username and password typed in
HandleLogin(username, password, error) ==
    /\ stack = "Login"
    /\ \E v \in {validate_user(users, username, password, error)} :
        /\ stack' = IF v.result THEN "Main" ELSE "Login"
        /\ login' = [op |-> "handle_login", username |-> username,
                     password |-> password, error |-> error, result |-> v.result,
                     dialogs |-> IF v.result THEN v.dialogs
                                 ELSE Append(v.dialogs, "warning: Login Failed")]
    /\ UNCHANGED users
    /\ UNCHANGED listVars
    /\ UNCHANGED <<attendanceVars, financeVars, importVars, fileVars>>
    /\ UNCHANGED disk

\* ------------------------------------------------ customers and employees
MaxCustomers == 2
MaxEmployees == 1

\* The items of CustomerDialog.enrollment_status
EnrollmentStatuses == {"Enrolled", "Waitlisted", "Withdrawn"}

\* CustomerDialog.get_data, as far as the attendance list reads it
get_data(enrollment_status) ==
    [child_full_name |-> "c", enrollment_status |-> enrollment_status]

\* dict.get(key): <<>> for None, else a one-element sequence holding the value
get(dict, key) == IF key \in DOMAIN dict THEN <<dict[key]>> ELSE <<>>

\* The data of the customers of the database file the program opens: what
\* get_data writes, or a dict without the key enrollment_status.
CustomerData == {get_data(e) : e \in EnrollmentStatuses} \cup {[child_full_name |-> "c"]}

\* The customers table of the database file: ids as given to the first rows.
CustomerTables ==
    {t \in UNION {[1..n -> [id : 1..MaxCustomers, data : CustomerData]] :
                      n \in 0..MaxCustomers} : \A i \in DOMAIN t : t[i].id = i}

\* The employees table of the database file.  IncomeExpenseDB has no
\* add_employee (that of line 372 belongs to the class nested at line 371), so
\* ManageEmployeesScreen.add_employee raises AttributeError and every employee
\* was in the file already.
EmployeeTables ==
    {t \in UNION {[1..n -> [id : 1..MaxEmployees, data : {[name |-> "e"]}]] :
                      n \in 0..MaxEmployees} : \A i \in DOMAIN t : t[i].id = i}

\* Mutant: the id is one more than the largest id in the table, as for a
\* column that is INTEGER PRIMARY KEY only.
add_customer_rowid(rows, seq, customer_data) ==
    LET largest == IF rows = <<>> THEN 0
                   ELSE CHOOSE n \in {rows[i].id : i \in DOMAIN rows} :
                            \A i \in DOMAIN rows : rows[i].id <= n
    IN  <<Append(rows, [id |-> largest + 1, data |-> customer_data]),
          [seq EXCEPT !.customers = @ + 1]>>

\* IncomeExpenseDB.add_customer: <<rows, sqlite_sequence>>
add_customer(rows, seq, customer_data) ==
    <<Append(rows, [id |-> seq.customers + 1, data |-> customer_data]),
      [seq EXCEPT !.customers = @ + 1]>>

\* IncomeExpenseDB.update_customer
update_customer(rows, customer_id, customer_data) ==
    [i \in DOMAIN rows |->
        IF rows[i].id = customer_id THEN [rows[i] EXCEPT !.data = customer_data]
        ELSE rows[i]]

\* IncomeExpenseDB.delete_customer
delete_customer(rows, customer_id) == SelectSeq(rows, LAMBDA r : r.id # customer_id)

\* ManageCustomersScreen.add_customer with the dialog accepted
AddCustomer(enrollment_status) ==
    /\ sqlite_sequence.customers < MaxCustomers
    /\ \E r \in {add_customer(customers, sqlite_sequence, get_data(enrollment_status))} :
        /\ customers' = r[1]
        /\ sqlite_sequence' = r[2]
        /\ assigned' = assigned \cup {r[1][Len(r[1])].id}
    /\ UNCHANGED <<employees, listing>>
    /\ UNCHANGED <<expense_files, storage, fileOp>>
    /\ UNCHANGED <<attendanceVars, financeVars, importVars, userVars>>
    /\ Commit

\* ManageCustomersScreen.edit_customer with a row selected and the dialog accepted
EditCustomer(customer_id, enrollment_status) ==
    /\ \E i \in DOMAIN customers : customers[i].id = customer_id
    /\ customers' = update_customer(customers, customer_id, get_data(enrollment_status))
    /\ UNCHANGED <<employees, listing, assigned>>
    /\ UNCHANGED <<attendanceVars, financeVars, importVars, fileVars, userVars>>
    /\ Commit

\* ManageCustomersScreen.delete_customer with a row selected and Yes answered
DeleteCustomer(customer_id) ==
    /\ \E i \in DOMAIN customers : customers[i].id = customer_id
    /\ customers' = delete_customer(customers, customer_id)
    /\ UNCHANGED <<employees, listing, assigned>>
    /\ UNCHANGED <<attendanceVars, financeVars, importVars, fileVars, userVars>>
    /\ Commit

\* The employee_attendance table of the database file: empty, or a clock-in of
\* employee 1 on the first day (no statement of the program can write one,
\* see clock_in_employee).
EmployeeAttendanceTables ==
    {<<>>, <<[id |-> 1, child_id |-> 1, date |-> dateToString(StartDate),
              check_in_time |-> Text(timeToString(0)), check_out_time |-> Null]>>}

\* IncomeExpenseDB.update_employee
update_employee(rows, employee_id, employee_data) ==
    [i \in DOMAIN rows |->
        IF rows[i].id = employee_id THEN [rows[i] EXCEPT !.data = employee_data]
        ELSE rows[i]]

\* IncomeExpenseDB.delete_employee
delete_employee(rows, employee_id) == SelectSeq(rows, LAMBDA r : r.id # employee_id)

\* IncomeExpenseDB.update_employee(employee_id, employee_data)
UpdateEmployee(employee_id, employee_data) ==
    /\ employees' = update_employee(employees, employee_id, employee_data)
    /\ UNCHANGED <<customers, listing, assigned>>
    /\ UNCHANGED <<attendanceVars, financeVars, importVars, fileVars, userVars>>
    /\ Commit

\* IncomeExpenseDB.delete_employee(employee_id)
DeleteEmployee(employee_id) ==
    /\ employees' = delete_employee(employees, employee_id)
    /\ UNCHANGED <<customers, listing, assigned>>
    /\ UNCHANGED <<attendanceVars, financeVars, importVars, fileVars, userVars>>
    /\ Commit

\* -------------------------------------------------------- attendance lists
\* IncomeExpenseDB.get_customers / get_employees: the decoded data with the id
get_customers == customers
get_employees == employees

\* load_children listing every customer
load_children_all ==
    [rows |-> [i \in DOMAIN get_customers |->
                  [id |-> get_customers[i].id,
                   status |-> ChildAttendanceScreen_update_status(
                                  get_customers[i].id, dateToString(currentDate))]],
     outcome |-> "none"]

\* ChildAttendanceScreen.load_children: the rows of the table, each the child
\* id and the text of its status item
load_children ==
    LET children == get_customers
        enrolled_children ==
            SelectSeq(children, LAMBDA child : get(child.data, "enrollment_status") = <<"Enrolled">>)
    IN  [rows |-> [i \in DOMAIN enrolled_children |->
                      [id |-> enrolled_children[i].id,
                       status |-> ChildAttendanceScreen_update_status(
                                      enrolled_children[i].id, dateToString(currentDate))]],
         outcome |-> "none"]

\* The loop of EmployeeAttendanceScreen.load_employees: a row gets its id and
\* an empty status item, then update_status sets the text or raises, which
\* ends the loop.
RECURSIVE FillEmployees(_)
FillEmployees(rest) ==
    IF rest = <<>> THEN [rows |-> <<>>, outcome |-> "none"]
    ELSE LET employee_id == Head(rest).id
             status == EmployeeAttendanceScreen_update_status(
                           employee_id, dateToString(currentDate))
         IN  IF status = <<"raise: AttributeError">>
             THEN [rows |-> <<[id |-> employee_id, status |-> <<>>]>>,
                   outcome |-> "raise: AttributeError"]
             ELSE LET more == FillEmployees(Tail(rest))
                  IN  [rows |-> <<[id |-> employee_id, status |-> status]>> \o more.rows,
                       outcome |-> more.outcome]

\* EmployeeAttendanceScreen.load_employees
load_employees == FillEmployees(get_employees)

\* ChildAttendanceScreen.load_children, as the screen runs it when it is built
LoadChildren ==
    /\ \E r \in {load_children} :
        listing' = [op |-> "load_children", rows |-> r.rows, outcome |-> r.outcome]
    /\ UNCHANGED <<customers, employees, assigned>>
    /\ UNCHANGED <<attendanceVars, financeVars, importVars, fileVars, userVars>>
    /\ UNCHANGED disk

\* EmployeeAttendanceScreen.load_employees, as the screen runs it when it is built
LoadEmployees ==
    /\ \E r \in {load_employees} :
        listing' = [op |-> "load_employees", rows |-> r.rows, outcome |-> r.outcome]
    /\ UNCHANGED <<customers, employees, assigned>>
    /\ UNCHANGED <<attendanceVars, financeVars, importVars, fileVars, userVars>>
    /\ UNCHANGED disk

\* --------------------------------------------------------------- navigation
\* The keys of screen_mapping in IncomeExpenseApp.show_screen
ScreenNames ==
    {"Login", "Main", "ManageIncome", "ManageExpense", "ManageCustomers",
     "ManageEmployees", "ProfitLoss", "BalanceSheet", "CashFlow", "TaxSummary",
     "ChildAttendance", "EmployeeAttendance"}

\* Names show_screen can be called with: those of the mapping and two others.
CalledNames == ScreenNames \cup {"Home", "login"}

\* Mutant: an unknown name shows the main screen.
show_screen_fallback(current, screen_name) ==
    IF screen_name \in ScreenNames
    THEN [stack |-> screen_name, dialogs |-> <<>>]
    ELSE [stack |-> "Main", dialogs |-> <<"critical: Navigation Error">>]

\* IncomeExpenseApp.show_screen with `current` shown: the screen shown after
\* it and the dialog
show_screen(current, screen_name) ==
    IF screen_name \in ScreenNames
    THEN [stack |-> screen_name, dialogs |-> <<>>]
    ELSE [stack |-> current, dialogs |-> <<"critical: Navigation Error">>]

\* The screens the buttons of the screen `current` ask show_screen for: the
\* buttons of MainScreen, the Back button of the others, none on LoginScreen
\* (its only button is connected to handle_login).
Buttons(current) ==
    IF current = "Login" THEN {}
    ELSE IF current = "Main" THEN ScreenNames \ {"Login", "Main"}
    ELSE {"Main"}

\* A button of the screen shown is pressed: show_screen(screen_name)
ShowScreen(screen_name) ==
    /\ screen_name \in Buttons(stack)
    /\ stack' = show_screen(stack, screen_name).stack
    /\ UNCHANGED <<users, login>>
    /\ UNCHANGED listVars
    /\ UNCHANGED <<attendanceVars, financeVars, importVars, fileVars>>
    /\ UNCHANGED disk

\* ----------------------------------------- buttons of the attendance screen
\* The number of parameters, self apart, of the methods of IncomeExpenseDB
\* that ChildAttendanceScreen calls
IncomeExpenseDB_parameters == [check_in_child |-> 1, check_out_child |-> 1]

\* ChildAttendanceScreen.check_in_child: it passes child_id, date and time;
\* a call with another number of arguments than the method has parameters
\* raises TypeError, which `except Exception` turns into a dialog.
ChildAttendanceScreen_check_in_child(rows, child_id) ==
    IF Len(<<child_id, dateToString(currentDate), timeToString(currentTime)>>)
           # IncomeExpenseDB_parameters.check_in_child
    THEN [rows |-> rows, outcome |-> "critical: Check-In Error", reload |-> FALSE]
    ELSE [rows |-> check_in_child(rows, child_id).rows,
          outcome |-> "information: Check-In Successful", reload |-> TRUE]

\* ChildAttendanceScreen.check_out_child
ChildAttendanceScreen_check_out_child(rows, child_id) ==
    IF Len(<<child_id, dateToString(currentDate), timeToString(currentTime)>>)
           # IncomeExpenseDB_parameters.check_out_child
    THEN [rows |-> rows, outcome |-> "critical: Check-Out Error", reload |-> FALSE]
    ELSE [rows |-> check_out_child(rows, child_id).rows,
          outcome |-> "information: Check-Out Successful", reload |-> TRUE]

\* The child ids of the rows of the child attendance table
ListedChildren ==
    IF listing.op = "load_children"
    THEN {listing.rows[i].id : i \in DOMAIN listing.rows}
    ELSE {}

\* What load_children shows when it is run on the table `rows`
Reloaded(rows) ==
    [op |-> "load_children",
     rows |-> [i \in DOMAIN load_children.rows |->
                  [id |-> load_children.rows[i].id,
                   status |-> StatusOf(
                       LET result == fetchone(SelectRows(rows, load_children.rows[i].id,
                                                         dateToString(currentDate)))
                       IN  IF result # <<>>
                           THEN <<[check_in_time |-> result[1].check_in_time,
                                   check_out_time |-> result[1].check_out_time]>>
                           ELSE <<>>,
                       "Checked")]],
     outcome |-> "none"]

\* The Check-In button of the row of child_id is pressed
PressCheckIn(child_id) ==
    /\ stack = "ChildAttendance"
    /\ child_id \in ListedChildren
    /\ Logged("press_check_in", child_id)
    /\ \E r \in {ChildAttendanceScreen_check_in_child(child_attendance, child_id)} :
        /\ child_attendance' = r.rows
        /\ outcome' = r.outcome
        /\ listing' = IF r.reload THEN Reloaded(r.rows) ELSE listing
        /\ IF r.reload THEN Commit ELSE UNCHANGED disk
    /\ UNCHANGED <<employee_attendance, day, now, rechecked>>
    /\ UNCHANGED <<customers, employees, assigned>>
    /\ UNCHANGED <<financeVars, importVars, fileVars, userVars>>

\* The Check-Out button of the row of child_id is pressed
PressCheckOut(child_id) ==
    /\ stack = "ChildAttendance"
    /\ child_id \in ListedChildren
    /\ Logged("press_check_out", child_id)
    /\ \E r \in {ChildAttendanceScreen_check_out_child(child_attendance, child_id)} :
        /\ child_attendance' = r.rows
        /\ outcome' = r.outcome
        /\ listing' = IF r.reload THEN Reloaded(r.rows) ELSE listing
        /\ IF r.reload THEN Commit ELSE UNCHANGED disk
    /\ UNCHANGED <<employee_attendance, day, now, rechecked>>
    /\ UNCHANGED <<customers, employees, assigned>>
    /\ UNCHANGED <<financeVars, importVars, fileVars, userVars>>

\* ------------------------------------------------------------- construction
NoListing == [op |-> "none"]

\* A database file that does not exist yet: sqlite3.connect creates it empty.
NewFile == [users |-> <<>>, customers |-> <<>>, employees |-> <<>>,
            employee_attendance |-> <<>>]

\* IncomeExpenseApp.__init__ on the database file it finds
Start(file) ==
    /\ income = <<>>
    /\ expense = <<>>
    /\ report = NoReport
    /\ child_attendance = <<>>
    /\ employee_attendance = file.employee_attendance
    /\ day = 0
    /\ now = 0
    /\ outcome = "none"
    /\ lastCall = NoCall
    /\ prevCall = NoCall
    /\ ncalls = 0
    /\ rechecked = FALSE
    /\ upload = NoUpload
    /\ expense_files = <<>>
    /\ storage = EmptyDir
    /\ sqlite_sequence = [expense |-> 0, expense_files |-> 0,
                          customers |-> Len(file.customers)]
    /\ fileOp = NoFileOp
    /\ users = create_tables(file.users)
    /\ stack = "Login"
    /\ login = NoLogin
    /\ customers = file.customers
    /\ employees = file.employees
    /\ listing = NoListing
    /\ assigned = {file.customers[i].id : i \in DOMAIN file.customers}
    /\ disk = [expense |-> <<>>, expense_files |-> <<>>]

Init == Start(NewFile)

\* The child attendance protocol under a running clock.
Next ==
    \/ \E s \in Subjects : CheckInChild(s)
    \/ \E s \in Subjects : CheckOutChild(s)
    \/ Tick
    \/ NextDay

Spec == Init /\ [][Next]_vars

\* Both attendance protocols: children and employees.
NextStaff ==
    \/ \E s \in Subjects : CheckInChild(s)
    \/ \E s \in Subjects : CheckOutChild(s)
    \/ \E e \in Subjects : ClockInEmployee(e)
    \/ \E e \in Subjects : ClockOutEmployee(e)
    \/ Tick
    \/ NextDay

SpecStaff == Init /\ [][NextStaff]_vars

\* Transactions and the reports over them.
NextTotals ==
    \/ \E a \in Amounts, d \in SampleDates : AddIncome(a, d)
    \/ \E a \in Amounts, d \in SampleDates : AddExpense(a, d)
    \/ \E a, b \in SampleDates : ProfitLossReport(a, b)

SpecTotals == Init /\ [][NextTotals]_vars

\* ------------------------------------------------------------ balance sheet
\* Dates picked in the date editors when the balance sheet is of interest: a
\* QDateEdit takes any date from 1752-09-14 on, so a day before 1900 too.
BalanceDates == {<<1899, 12, 31>>, <<2024, 3, 1>>, <<2024, 3, 2>>}

\* The literal "1900-01-01".
EarliestDate == <<49, 57, 48, 48, 45, 48, 49, 45, 48, 49>>

\* Mutant: equity adds the expense total.
BalanceSheetScreen_generate_report_adding(as_of) ==
    LET as_of_date == dateToString(as_of)
        total_assets == get_total("income", EarliestDate, as_of_date)
        total_liabilities == get_total("expense", EarliestDate, as_of_date)
    IN  [screen |-> "BalanceSheet", as_of_date |-> as_of_date,
         total_assets |-> total_assets, total_liabilities |-> total_liabilities,
         total_equity |-> Number(total_assets.num + total_liabilities.num)]

\* BalanceSheetScreen.generate_report on the date of the date editor: the text
\* set, as its fields.
BalanceSheetScreen_generate_report(as_of) ==
    LET as_of_date == dateToString(as_of)
        total_assets == get_total("income", EarliestDate, as_of_date)
        total_liabilities == get_total("expense", EarliestDate, as_of_date)
    IN  [screen |-> "BalanceSheet", as_of_date |-> as_of_date,
         total_assets |-> total_assets, total_liabilities |-> total_liabilities,
         total_equity |-> Minus(total_assets, total_liabilities)]

BalanceSheetReport(as_of) ==
    /\ report' = BalanceSheetScreen_generate_report(as_of)
    /\ UNCHANGED <<income, expense>>
    /\ UNCHANGED attendanceVars
    /\ UNCHANGED extraVars
    /\ UNCHANGED disk

\* Transactions and the balance sheet over them.
NextBalance ==
    \/ \E a \in Amounts, d \in BalanceDates : AddIncome(a, d)
    \/ \E a \in Amounts, d \in BalanceDates : AddExpense(a, d)
    \/ \E a \in BalanceDates : BalanceSheetReport(a)

SpecBalance == Init /\ [][NextBalance]_vars

\* -------------------------------------------------------------- tax summary
\* Texts typed into year_input: "2024", "2023", "0", "x".
YearTexts == {<<50, 48, 50, 52>>, <<50, 48, 50, 51>>, <<48>>, <<120>>}
Periods == {"Quarterly", "Annual"}

\* QDate(y, m, d).isValid: the calendar has no year 0.
QDate_isValid(d) ==
    /\ d[1] # 0
    /\ d[2] \in 1..12
    /\ d[3] \in 1..daysInMonth(d[1], d[2])

\* QDate(y, m, d).toString("yyyy-MM-dd"): empty for an invalid date.
QDate_toString(d) == IF QDate_isValid(d) THEN dateToString(d) ELSE <<>>

\* QDate(y, m, d).daysInMonth(): 0 for an invalid date.
QDate_daysInMonth(d) == IF QDate_isValid(d) THEN daysInMonth(d[1], d[2]) ELSE 0

\* Mutant: every quarter ends on the 30th.
QuarterWindow_thirtieth(year, q) ==
    [start_date |-> QDate_toString(<<year, 3 * q - 2, 1>>),
     end_date |-> QDate_toString(<<year, 3 * q, 30>>)]

\* Mutant: every quarter runs from the first of January.
QuarterWindow_year_to_date(year, q) ==
    [start_date |-> QDate_toString(<<year, 1, 1>>),
     end_date |-> QDate_toString(<<year, 3 * q, QDate_daysInMonth(<<year, 3 * q, 1>>)>>)]

\* The window of quarter q in the loop of TaxSummaryScreen.generate_report.
QuarterWindow(year, q) ==
    LET end_month == 3 * q
        end_day == QDate_daysInMonth(<<year, end_month, 1>>)
    IN  [start_date |-> QDate_toString(<<year, 3 * q - 2, 1>>),
         end_date |-> QDate_toString(<<year, end_month, end_day>>)]

\* One period of the tax summary: the two totals and their difference.
TaxLines(start_date, end_date) ==
    LET total_income == get_total("income", start_date, end_date)
        total_expenses == get_total("expense", start_date, end_date)
    IN  [start_date |-> start_date, end_date |-> end_date,
         total_income |-> total_income, total_expenses |-> total_expenses,
         taxable_income |-> Minus(total_income, total_expenses)]

\* TaxSummaryScreen.generate_report: the report text set (as its fields) and
\* the dialog shown.
TaxSummaryScreen_generate_report(period, year_text) ==
    IF ~isdigit(year_text)
    THEN [report |-> report, outcome |-> "warning: Input Error"]
    ELSE LET year == int(year_text)
         IN  IF period = "Quarterly"
             THEN [report |-> [screen |-> "TaxSummary", period |-> period, year |-> year,
                               lines |-> [q \in 1..4 |->
                                            LET w == QuarterWindow(year, q)
                                            IN  TaxLines(w.start_date, w.end_date)]],
                   outcome |-> "none"]
             ELSE [report |-> [screen |-> "TaxSummary", period |-> period, year |-> year,
                               lines |-> <<TaxLines(QDate_toString(<<year, 1, 1>>),
                                                    QDate_toString(<<year, 12, 31>>))>>],
                   outcome |-> "none"]

TaxSummaryReport(period, year_text) ==
    LET r == TaxSummaryScreen_generate_report(period, year_text)
    IN  /\ report' = r.report
        /\ outcome' = r.outcome
        /\ UNCHANGED <<income, expense>>
        /\ UNCHANGED <<child_attendance, employee_attendance, day, now,
                       lastCall, prevCall, ncalls, rechecked>>
        /\ UNCHANGED extraVars
        /\ UNCHANGED disk

\* Transactions and the tax summary over them.
NextTax ==
    \/ \E a \in Amounts, d \in SampleDates : AddIncome(a, d)
    \/ \E a \in Amounts, d \in SampleDates : AddExpense(a, d)
    \/ \E p \in Periods, y \in YearTexts : TaxSummaryReport(p, y)

SpecTax == Init /\ [][NextTax]_vars

\* Dates at the ends of the quarters of 2024 and just outside the year.
QuarterDates ==
    {<<2023, 12, 31>>, <<2024, 3, 31>>, <<2024, 4, 1>>, <<2024, 12, 31>>, <<2025, 1, 1>>}

\* Transactions at the ends of the quarters and the tax summary over them.
NextYear ==
    \/ \E a \in Amounts, d \in QuarterDates : AddIncome(a, d)
    \/ \E a \in Amounts, d \in QuarterDates : AddExpense(a, d)
    \/ \E p \in Periods : TaxSummaryReport(p, <<50, 48, 50, 52>>)

SpecYear == Init /\ [][NextYear]_vars

\* Bulk uploads into both tables.
NextBulk ==
    \E t \in {"income", "expense"}, h \in Headers, rows \in Batches :
        BulkUpload(t, h, rows)

SpecBulk == Init /\ [][NextBulk]_vars

\* Expenses with attachments, added and deleted.
NextFiles ==
    \/ \E files \in FileLists : AddExpenseWithFiles(files)
    \/ \E e \in 1..MaxExpenses : DeleteExpense(e)

SpecFiles == Init /\ [][NextFiles]_vars

\* Attachments when a statement of delete_expense fails, and an operation
\* that commits afterwards.
NextAbort ==
    \/ \E files \in FileLists : AddExpenseWithFiles(files)
    \/ \E expense_id \in 1..MaxExpenses : DeleteExpense(expense_id)
    \/ \E expense_id \in 1..MaxExpenses, fault \in Faults :
           DeleteExpenseFails(expense_id, fault)
    \/ \E a \in Amounts, d \in SampleDates : AddIncome(a, d)

SpecAbort == Init /\ [][NextAbort]_vars

\* Logging in, on a database file with any users table.
InitLogin == \E t \in UserTables : Start([NewFile EXCEPT !.users = t])

NextLogin ==
    \E username \in TypedUsernames, password \in TypedPasswords, error \in BOOLEAN :
        HandleLogin(username, password, error)

SpecLogin == InitLogin /\ [][NextLogin]_vars

\* The attendance lists, on a database file with any customers and employees.
InitListing ==
    \E c \in CustomerTables, e \in EmployeeTables :
        Start([NewFile EXCEPT !.customers = c, !.employees = e])

NextListing ==
    \/ \E enrollment_status \in EnrollmentStatuses : AddCustomer(enrollment_status)
    \/ \E customer_id \in 1..MaxCustomers, enrollment_status \in EnrollmentStatuses :
           EditCustomer(customer_id, enrollment_status)
    \/ \E customer_id \in 1..MaxCustomers : DeleteCustomer(customer_id)
    \/ \E s \in Subjects : CheckInChild(s)
    \/ \E s \in Subjects : CheckOutChild(s)
    \/ NextDay
    \/ LoadChildren
    \/ LoadEmployees

SpecListing == InitListing /\ [][NextListing]_vars

\* The running application: the screens are built (the child list is loaded),
\* the user logs in, moves between the screens and uses the customer screen
\* and the child attendance screen.  The database file holds no employee:
\* with one, building EmployeeAttendanceScreen raises (load_employees).
InitApp ==
    \E c \in CustomerTables : Start([NewFile EXCEPT !.customers = c])

Built == listing # NoListing

NextApp ==
    \/ ~Built /\ LoadChildren
    \/ Built /\ \E username \in TypedUsernames, password \in TypedPasswords :
                    HandleLogin(username, password, FALSE)
    \/ Built /\ \E screen_name \in ScreenNames : ShowScreen(screen_name)
    \/ Built /\ stack = "ManageCustomers"
             /\ \E enrollment_status \in EnrollmentStatuses : AddCustomer(enrollment_status)
    \/ Built /\ stack = "ManageCustomers"
             /\ \E customer_id \in 1..MaxCustomers, enrollment_status \in EnrollmentStatuses :
                    EditCustomer(customer_id, enrollment_status)
    \/ Built /\ stack = "ManageCustomers"
             /\ \E customer_id \in 1..MaxCustomers : DeleteCustomer(customer_id)
    \/ Built /\ \E child_id \in 1..MaxCustomers : PressCheckIn(child_id)
    \/ Built /\ \E child_id \in 1..MaxCustomers : PressCheckOut(child_id)
    \/ Built /\ NextDay

SpecApp == InitApp /\ [][NextApp]_vars

\* Every operation on attendance, customers and employees, on a database
\* file with any employees and employee attendance.  (An employee cannot be
\* added: IncomeExpenseDB has no add_employee.)
InitRecords ==
    \E e \in EmployeeTables, a \in EmployeeAttendanceTables :
        Start([NewFile EXCEPT !.employees = e, !.employee_attendance = a])

NextRecords ==
    \/ \E s \in Subjects : CheckInChild(s)
    \/ \E s \in Subjects : CheckOutChild(s)
    \/ \E e \in Subjects : ClockInEmployee(e)
    \/ \E e \in Subjects : ClockOutEmployee(e)
    \/ NextDay
    \/ \E enrollment_status \in EnrollmentStatuses : AddCustomer(enrollment_status)
    \/ \E customer_id \in 1..MaxCustomers, enrollment_status \in EnrollmentStatuses :
           EditCustomer(customer_id, enrollment_status)
    \/ \E customer_id \in 1..MaxCustomers : DeleteCustomer(customer_id)
    \/ \E employee_id \in 1..MaxEmployees : UpdateEmployee(employee_id, [name |-> "f"])
    \/ \E employee_id \in 1..MaxEmployees : DeleteEmployee(employee_id)

SpecRecords == InitRecords /\ [][NextRecords]_vars

\* Customers added and deleted, and the attendance of those there are.
NextIds ==
    \/ \E enrollment_status \in EnrollmentStatuses : AddCustomer(enrollment_status)
    \/ \E customer_id \in 1..MaxCustomers : DeleteCustomer(customer_id)
    \/ \E s \in Subjects : s \in {customers[i].id : i \in DOMAIN customers} /\ CheckInChild(s)
    \/ \E s \in Subjects : s \in {customers[i].id : i \in DOMAIN customers} /\ CheckOutChild(s)
    \/ NextDay

SpecIds == Init /\ [][NextIds]_vars

\* ================================================================== claims
Days == {dateToString(addDays(StartDate, n)) : n \in 0..MaxDay}

RowsOf(rows, sid, date) == {i \in DOMAIN rows : rows[i].child_id = sid /\ rows[i].date = date}

SameSubjectAndDay == prevCall.sid = lastCall.sid /\ prevCall.date = lastCall.date

\* C1: after check_in(S) followed by check_out(S), both on day D, the status
\* derived for (S, D) is Checked Out, whatever the table held before.
C1_CheckInThenCheckOutIsCheckedOut ==
    (prevCall.op = "check_in" /\ lastCall.op = "check_out" /\ SameSubjectAndDay)
        => ChildAttendanceScreen_update_status(lastCall.sid, lastCall.date)
               = <<"Checked", "Out">>

C1_Witness ==
    /\ prevCall.op = "check_in" /\ lastCall.op = "check_out" /\ SameSubjectAndDay
    /\ ncalls >= 3
    /\ Len(child_attendance) >= 2
    /\ ChildAttendanceScreen_update_status(lastCall.sid, lastCall.date) = <<"Checked", "Out">>

\* C2: the attendance table holds at most one record per (subject_id, date).
C2_OneRecordPerSubjectAndDay ==
    \A i, j \in DOMAIN child_attendance :
        (child_attendance[i].child_id = child_attendance[j].child_id
         /\ child_attendance[i].date = child_attendance[j].date) => i = j

C2_Witness ==
    /\ prevCall.op = "check_in" /\ lastCall.op = "check_in" /\ SameSubjectAndDay
    /\ \E i, j \in DOMAIN child_attendance :
          /\ child_attendance[i].child_id = child_attendance[j].child_id
          /\ child_attendance[i].date # child_attendance[j].date

\* C3: check_in(S) twice on day D leaves exactly one record for (S, D), whose
\* check-in time is the time of the second call.
C3_SecondCheckInOverwrites ==
    (prevCall.op = "check_in" /\ lastCall.op = "check_in" /\ SameSubjectAndDay)
        => /\ Cardinality(RowsOf(child_attendance, lastCall.sid, lastCall.date)) = 1
           /\ \A i \in RowsOf(child_attendance, lastCall.sid, lastCall.date) :
                 child_attendance[i].check_in_time = Text(lastCall.time)

C3_Witness ==
    /\ prevCall.op = "check_in" /\ lastCall.op = "check_in" /\ SameSubjectAndDay
    /\ prevCall.time # lastCall.time
    /\ \E i \in DOMAIN child_attendance :
          /\ child_attendance[i].child_id = lastCall.sid
          /\ child_attendance[i].check_in_time = Text(lastCall.time)

\* C4: check_out(S) when no record exists for (S, today) leaves the whole
\* attendance table unchanged and reports the NotCheckedIn warning.
C4_CheckOutWithoutRecordChangesNothing ==
    [][(/\ ncalls' = ncalls + 1
        /\ lastCall'.op = "check_out"
        /\ RowsOf(child_attendance, lastCall'.sid, lastCall'.date) = {})
           => /\ child_attendance' = child_attendance
              /\ outcome' = "warning: Attendance Error"]_vars

C4_Witness ==
    /\ lastCall.op = "check_out"
    /\ outcome = "warning: Attendance Error"
    /\ child_attendance # <<>>
    /\ RowsOf(child_attendance, lastCall.sid, lastCall.date) = {}

\* C5 as stated: every record that has a check-out time has a check-in time
\* that is not later, whatever calls were made.
C5_CheckOutNeverBeforeCheckIn ==
    \A i \in DOMAIN child_attendance :
        ~child_attendance[i].check_out_time.null
            => /\ ~child_attendance[i].check_in_time.null
               /\ TextLeq(child_attendance[i].check_in_time.text,
                          child_attendance[i].check_out_time.text)

\* C5 as amended: the same, for the behaviours in which no check_in was made
\* for a subject already checked out that day; and every call writes the
\* record of the day it is made on.
C5_CheckOutFollowsCheckInUnlessRechecked ==
    /\ ~rechecked => C5_CheckOutNeverBeforeCheckIn
    /\ \A i \in DOMAIN child_attendance :
          ~child_attendance[i].check_out_time.null
              => ~child_attendance[i].check_in_time.null
    /\ (lastCall.op = "check_in" /\ outcome = "none")
          => \E i \in RowsOf(child_attendance, lastCall.sid, lastCall.date) :
                child_attendance[i].check_in_time = Text(lastCall.time)
    /\ (lastCall.op = "check_out" /\ outcome = "none")
          => \E i \in RowsOf(child_attendance, lastCall.sid, lastCall.date) :
                child_attendance[i].check_out_time = Text(lastCall.time)

C5_Witness ==
    /\ ~rechecked
    /\ \E i \in DOMAIN child_attendance :
          /\ ~child_attendance[i].check_out_time.null
          /\ child_attendance[i].check_in_time.text # child_attendance[i].check_out_time.text

\* The status the protocol assigns to the record of (subject, date).
StatusOfRecord(rows, sid, date, word) ==
    LET found == RowsOf(rows, sid, date)
    IN  IF found = {} THEN {<<"Absent">>}
        ELSE {IF rows[i].check_in_time.null /\ rows[i].check_out_time.null
                 THEN <<"Absent">>
              ELSE IF ~rows[i].check_in_time.null /\ rows[i].check_out_time.null
                 THEN <<word, "In">>
              ELSE IF ~rows[i].check_in_time.null /\ ~rows[i].check_out_time.null
                 THEN <<word, "Out">>
              ELSE <<"unspecified">> : i \in found}

\* The child half of C6: the status update_status shows for a child is the
\* status of the child's record.
ChildStatusIsFunctionOfRecord ==
    \A s \in Subjects, d \in Days :
        StatusOfRecord(child_attendance, s, d, "Checked")
            = {ChildAttendanceScreen_update_status(s, d)}

\* C6: the status derived for (subject, date), child or employee, is a total
\* function of the record: Absent without a record or with neither timestamp,
\* In with check-in only, Out with both; exactly one of the three.
C6_StatusIsTotalFunctionOfRecord ==
    /\ ChildStatusIsFunctionOfRecord
    /\ \A e \in Subjects, d \in Days :
          StatusOfRecord(employee_attendance, e, d, "Clocked")
              = {EmployeeAttendanceScreen_update_status(e, d)}

\* Keys and timestamp presence of every record, row by row.
Shape(rows) ==
    [i \in DOMAIN rows |->
        <<rows[i].child_id, rows[i].date,
          ~rows[i].check_in_time.null, ~rows[i].check_out_time.null>>]

AllStatuses == [s \in Subjects, d \in Days |-> ChildAttendanceScreen_update_status(s, d)]

\* C7: the same operation applied a second time in succession for the same
\* subject on the same day changes neither the records' keys and timestamp
\* presence nor any derived status.
C7_SecondApplicationChangesNoShape ==
    [][(/\ ncalls' = ncalls + 1
        /\ lastCall'.op = lastCall.op
        /\ lastCall'.sid = lastCall.sid
        /\ lastCall'.date = lastCall.date)
           => /\ Shape(child_attendance') = Shape(child_attendance)
              /\ AllStatuses' = AllStatuses]_vars

C7_Witness ==
    /\ prevCall.op = "check_out" /\ lastCall.op = "check_out" /\ SameSubjectAndDay
    /\ prevCall.time # lastCall.time
    /\ outcome = "none"

\* C8: every employee operation changes employee_attendance, and reports, as
\* the child operation does on a table of the same content, and the employee
\* status is the status of the employee's record.
C8_EmployeeFollowsChildProtocol ==
    [][(ncalls' = ncalls + 1 /\ lastCall'.op \in {"clock_in", "clock_out"}) =>
          /\ lastCall'.op = "clock_in" =>
                /\ employee_attendance' = check_in_child(employee_attendance, lastCall'.sid).rows
                /\ outcome' = check_in_child(employee_attendance, lastCall'.sid).outcome
          /\ lastCall'.op = "clock_out" =>
                /\ employee_attendance' = check_out_child(employee_attendance, lastCall'.sid).rows
                /\ outcome' = check_out_child(employee_attendance, lastCall'.sid).outcome
          /\ \A e \in Subjects, d \in Days :
                StatusOfRecord(employee_attendance', e, d, "Clocked")
                    = {EmployeeAttendanceScreen_update_status(e, d)'}]_vars


\* Calendar order of two dates <<year, month, day>>.
DateLeq(a, b) ==
    \/ a[1] < b[1]
    \/ a[1] = b[1] /\ a[2] < b[2]
    \/ a[1] = b[1] /\ a[2] = b[2] /\ a[3] <= b[3]

\* The rows of a table dated within [start, end] of the calendar.
RowsWithin(table, start, end) ==
    SelectSeq(TableRows(table),
              LAMBDA r : \E d \in SampleDates :
                            /\ r.date = dateToString(d)
                            /\ DateLeq(start, d) /\ DateLeq(d, end))

\* C9: get_total returns the number 0, never a null, whenever no row of the
\* table has a date in [start, end], for every table content and every range.
C9_TotalOfNoRowsIsZero ==
    \A table \in {"income", "expense"}, a, b \in SampleDates :
        RowsWithin(table, a, b) = <<>>
            => get_total(table, dateToString(a), dateToString(b)) = Number(0)

C9_Witness ==
    /\ report # NoReport
    /\ income # <<>>
    /\ \E a, b \in SampleDates :
          /\ report.start_date = dateToString(a) /\ report.end_date = dateToString(b)
          /\ DateLeq(a, b)
          /\ RowsWithin("income", a, b) = <<>>
    /\ report.total_income = Number(0)

\* C10: for every table content and every start <= end, get_total is the sum
\* of the amounts of exactly the rows with start <= date <= end, rows dated
\* start or end included.
C10_TotalIsSumOverClosedRange ==
    \A table \in {"income", "expense"}, a, b \in SampleDates :
        DateLeq(a, b)
            => get_total(table, dateToString(a), dateToString(b))
                   = Number(SumAmounts(RowsWithin(table, a, b)))

C10_Witness ==
    /\ report # NoReport
    /\ report.start_date # report.end_date
    /\ \E i, k \in DOMAIN income :
          /\ income[i].date = report.end_date
          /\ ~TextLeq(income[k].date, report.end_date)
          /\ report.total_income = Number(income[i].amount)
    /\ report.total_income = get_total("income", report.start_date, report.end_date)

\* The rows of a table whose date is one of `dates` (calendar dates).
RowsDated(table, dates) ==
    SelectSeq(TableRows(table), LAMBDA r : \E d \in dates : r.date = dateToString(d))

\* What the balance sheet of as-of date A shows when it sums the rows dated
\* within `dates`.
BalanceOver(A, dates) ==
    LET inc == SumAmounts(RowsDated("income", dates))
        exp == SumAmounts(RowsDated("expense", dates))
    IN  [total_assets |-> Number(inc), total_liabilities |-> Number(exp),
         total_equity |-> Number(inc - exp)]

ShownBalance(A) ==
    LET r == BalanceSheetScreen_generate_report(A)
    IN  [total_assets |-> r.total_assets, total_liabilities |-> r.total_liabilities,
         total_equity |-> r.total_equity]

LastDayOfQuarter == <<31, 30, 30, 31>>

\* C12: for every year Y and quarter q in 1..4 the quarterly tax summary uses
\* the window Y-(3q-2)-01 .. Y-(3q)-(last day of that month), and the taxable
\* income of the window is its income total minus its expense total.
C12_QuartersAreCalendarQuarters ==
    \A y \in {t \in YearTexts : isdigit(t) /\ int(t) >= 1} :
        LET Y == int(y)
            r == TaxSummaryScreen_generate_report("Quarterly", y).report
        IN  /\ DOMAIN r.lines = 1..4
            /\ \A q \in 1..4 :
                  LET first == <<Y, 3 * q - 2, 1>>
                      last == <<Y, 3 * q, LastDayOfQuarter[q]>>
                      inc == SumAmounts(RowsWithin("income", first, last))
                      exp == SumAmounts(RowsWithin("expense", first, last))
                  IN  /\ r.lines[q].start_date = dateToString(first)
                      /\ r.lines[q].end_date = dateToString(last)
                      /\ r.lines[q].total_income = Number(inc)
                      /\ r.lines[q].total_expenses = Number(exp)
                      /\ r.lines[q].taxable_income = Number(inc - exp)

C12_Witness ==
    /\ report # NoReport
    /\ report.screen = "TaxSummary"
    /\ report.period = "Quarterly"
    /\ report.year = 2024
    /\ report = TaxSummaryScreen_generate_report("Quarterly", <<50, 48, 50, 52>>).report
    /\ Len(income) = 1 /\ Len(expense) = 1
    /\ income[1].date = dateToString(<<2024, 9, 30>>)
    /\ expense[1].date = dateToString(<<2024, 10, 1>>)
    /\ report.lines[3].taxable_income = Number(income[1].amount)
    /\ report.lines[4].taxable_income = Number(0 - expense[1].amount)
    /\ report.lines[1].end_date = <<50, 48, 50, 52, 45, 48, 51, 45, 51, 49>>

\* ------------------------------------------------------------- bulk upload
\* float(row['Amount']) returns a number.
AmountParses(row) == float(row.Amount).ok

\* The table accepts the values of the row.
TableAccepts(row) == ~row.Type.null /\ ~row.Date.null

\* The numbers of the rows of `rows` that satisfy Keep, in file order.
Kept(rows, Keep(_)) == SelectSeq([i \in DOMAIN rows |-> i], LAMBDA i : Keep(rows[i]))

\* The transactions the rows numbered `idxs` make, appended to `table`.
WithRows(table, rows, idxs) ==
    table \o [k \in DOMAIN idxs |->
                [id |-> Len(table) + k, amount |-> float(rows[idxs[k]].Amount).num,
                 date |-> rows[idxs[k]].Date.text]]

\* A step of an upload with a complete header adds exactly the rows that
\* satisfy Keep to the table of its entry type, reports exactly the rows whose
\* amount does not parse as errors, each with its row number, and counts
\* every row once.
UploadKeeps(Keep(_)) ==
    upload'.outcome = "status" =>
        LET rows == upload'.rows
            kept == Kept(rows, Keep)
            bad == Kept(rows, LAMBDA r : ~AmountParses(r))
        IN  /\ upload'.entry_type = "income" =>
                  income' = WithRows(income, rows, kept) /\ expense' = expense
            /\ upload'.entry_type = "expense" =>
                  expense' = WithRows(expense, rows, kept) /\ income' = income
            /\ upload'.error_count = Len(bad)
            /\ [k \in DOMAIN upload'.errors |-> upload'.errors[k].idx] = bad
            /\ upload'.success_count + upload'.error_count = Len(rows)

C14_SuccessCountIsRowsAdded ==
    [][upload'.outcome = "status" =>
          LET added == (Len(income') - Len(income)) + (Len(expense') - Len(expense))
          IN  /\ upload'.success_count = added
              /\ upload'.error_count = Len(upload'.rows) - added]_vars

\* C15: when a required column is missing from the header, no row is inserted
\* and both transaction tables are unchanged.
C15_MissingColumnInsertsNothing ==
    [][(upload'.fieldnames.null \/ ~(RequiredFields \subseteq upload'.fieldnames.names))
          => /\ income' = income
             /\ expense' = expense
             /\ upload'.success_count = 0
             /\ ~upload'.fieldnames.null => upload'.outcome = "warning: CSV Error"]_vars

C15_Witness ==
    /\ upload.outcome = "warning: CSV Error"
    /\ "Comments" \notin upload.fieldnames.names
    /\ \E i \in DOMAIN upload.rows :
          AmountParses(upload.rows[i]) /\ TableAccepts(upload.rows[i])
    /\ income # <<>>
    /\ Len(income) + Len(expense) + Len(upload.rows) <= MaxBatch

\* A text in the form yyyy-MM-dd that names a day of the calendar.
WellFormedDate(s) ==
    /\ Len(s) = 10
    /\ s[5] = 45 /\ s[8] = 45
    /\ isdigit(SubSeq(s, 1, 4)) /\ isdigit(SubSeq(s, 6, 7)) /\ isdigit(SubSeq(s, 9, 10))
    /\ QDate_isValid(<<int(SubSeq(s, 1, 4)), int(SubSeq(s, 6, 7)), int(SubSeq(s, 9, 10))>>)

\* C16: a bulk-import row whose Date is not in the form yyyy-MM-dd is reported
\* as a row error and nothing is written for it, so every persisted
\* transaction has a well-formed date.
C16_MalformedDateIsRowError ==
    /\ \A i \in DOMAIN income : WellFormedDate(income[i].date)
    /\ \A i \in DOMAIN expense : WellFormedDate(expense[i].date)
    /\ upload.outcome = "status" =>
          \A i \in DOMAIN upload.rows :
              (~upload.rows[i].Date.null /\ ~WellFormedDate(upload.rows[i].Date.text))
                  => \E k \in DOMAIN upload.errors : upload.errors[k].idx = i

\* ------------------------------------------------------ expense attachments
\* The link rows of an expense, and the stored paths they name.
LinksOf(links, expense_id) == {i \in DOMAIN links : links[i].expense_id = expense_id}
PathsOf(links, expense_id) == {links[i].file_path : i \in LinksOf(links, expense_id)}

\* C17: deleting an expense that has N attached files removes the N files
\* from storage, then the N link rows, then the expense row; afterwards no
\* file or link row of that expense remains, and the files and rows of the
\* other expenses are as they were.
C17_DeleteRemovesFilesLinksThenRow ==
    [][fileOp'.op = "delete_expense" =>
          LET E == fileOp'.expense_id
              paths == PathsOf(expense_files, E)
              steps == fileOp'.steps
          IN  /\ \A p \in paths : p \notin DOMAIN storage'
              /\ LinksOf(expense_files', E) = {}
              /\ \A i \in DOMAIN expense' : expense'[i].id # E
              /\ storage' = [p \in DOMAIN storage \ paths |-> storage[p]]
              /\ expense_files' = SelectSeq(expense_files, LAMBDA r : r.expense_id # E)
              /\ expense' = SelectSeq(expense, LAMBDA r : r.id # E)
              /\ steps[1].storage = storage'
              /\ steps[1].expense_files = expense_files /\ steps[1].expense = expense
              /\ steps[2].expense_files = expense_files' /\ steps[2].expense = expense
              /\ steps[3].expense = expense']_vars

C17_Witness ==
    /\ fileOp.op = "delete_expense"
    /\ Cardinality(PathsOf(fileOp.steps[1].expense_files, fileOp.expense_id)) = 2
    /\ \A i \in DOMAIN fileOp.steps[1].expense : fileOp.steps[1].expense[i].id \in {1, 2}
    /\ Len(fileOp.steps[1].expense) = 2
    /\ Len(expense) = 1
    /\ expense_files # <<>>
    /\ \A i \in DOMAIN expense_files :
          /\ expense_files[i].expense_id = expense[1].id
          /\ expense_files[i].file_path \in DOMAIN storage
    /\ Cardinality(DOMAIN storage) = Len(expense_files)

\* C18: any two distinct attachments, of one expense or of two, are stored
\* under distinct paths, so saving an attachment never overwrites the stored
\* file of another.
C18_AttachmentsNeverCollide ==
    [][fileOp'.op = "add_expense" =>
          LET files == fileOp'.files
              new == SubSeq(expense_files', Len(expense_files) + 1, Len(expense_files'))
          IN  /\ Len(new) = Len(files)
              /\ \A i, j \in DOMAIN new :
                    files[i] # files[j] => new[i].file_path # new[j].file_path
              /\ \A i \in DOMAIN new, k \in DOMAIN expense_files :
                    new[i].file_path # expense_files[k].file_path
              /\ \A i \in DOMAIN new : storage'[new[i].file_path] = files[i]
              /\ \A p \in DOMAIN storage : storage'[p] = storage[p]]_vars

\* The part of C18 that the naming scheme keeps: attachments of two expenses
\* are stored under distinct paths.
PathsOfTwoExpensesDiffer ==
    \A i, j \in DOMAIN expense_files :
        expense_files[i].expense_id # expense_files[j].expense_id
            => expense_files[i].file_path # expense_files[j].file_path

\* -------------------------------------------------------------------- users

Matches(username, password) ==
    \E i \in DOMAIN users : users[i].username = username /\ users[i].password = password

\* C19: validate_user(username, password) accepts exactly when the users table
\* holds a row whose username and password both equal the supplied values, and
\* rejects otherwise, also when the lookup fails with a storage error.  It
\* is stated of every pair that can be typed, and of the attempt last made.
C19_ValidateUserAcceptsExactlyMatchingRow ==
    /\ \A username \in TypedUsernames, password \in TypedPasswords :
        /\ validate_user(users, username, password, FALSE).result
               = Matches(username, password)
        /\ validate_user(users, username, password, TRUE).result = FALSE
    /\ login.op = "handle_login" =>
        login.result = (~login.error /\ Matches(login.username, login.password))

\* A user other than the default one, stored second in the table, was let in.
C19_Witness ==
    /\ login.op = "handle_login"
    /\ login.result
    /\ stack = "Main"
    /\ Len(users) = 2
    /\ login.username = users[2].username
    /\ login.username # DefaultUser.username
    /\ login.password # DefaultUser.password

\* --------------------------------------------------------- attendance lists
Today == dateToString(currentDate)

\* The customers whose enrollment status is "Enrolled", each with the status
\* of its record of today.
EnrolledWithStatus ==
    UNION {{[id |-> customers[i].id, status |-> status] :
               status \in StatusOfRecord(child_attendance, customers[i].id, Today, "Checked")} :
           i \in {j \in DOMAIN customers :
                     /\ "enrollment_status" \in DOMAIN customers[j].data
                     /\ customers[j].data.enrollment_status = "Enrolled"}}

\* Every employee, each with the status of its record of today.
EmployeesWithStatus ==
    UNION {{[id |-> employees[i].id, status |-> status] :
               status \in StatusOfRecord(employee_attendance, employees[i].id, Today, "Clocked")} :
           i \in DOMAIN employees}

\* The list just loaded holds each of `subjects` once, and nothing else.
Lists(subjects) ==
    /\ listing'.outcome = "none"
    /\ {listing'.rows[i] : i \in DOMAIN listing'.rows} = subjects
    /\ Len(listing'.rows) = Cardinality(subjects)

Loaded(op) == listing' # listing /\ listing'.op = op

\* C20: the child attendance listing holds exactly the customers whose
\* enrollment status is "Enrolled" (Waitlisted, Withdrawn and status-less
\* customers are left out), the employee listing holds every employee, and
\* each listed subject is paired with the status derived from its record for
\* the current day.
C20_ListingsHoldActiveSubjectsWithStatus ==
    [][/\ Loaded("load_children") => Lists(EnrolledWithStatus)
       /\ Loaded("load_employees") => Lists(EmployeesWithStatus)]_vars

\* The child half of the listing claim.
ChildListingHoldsEnrolledWithStatus ==
    [][Loaded("load_children") => Lists(EnrolledWithStatus)]_vars

\* A list of children with a customer of each kind left out and a child
\* checked in on an earlier day listed as Absent today.
ChildListingWitness ==
    /\ listing.op = "load_children"
    /\ Len(listing.rows) = 1
    /\ Len(customers) = 2
    /\ listing.rows[1].status = <<"Absent">>
    /\ \E i \in DOMAIN child_attendance : child_attendance[i].child_id = listing.rows[1].id
    /\ listing.rows = load_children.rows

\* ------------------------------------------------- storage errors in delete

\* C21: a data operation that fails with a storage error is aborted without
\* a persisted partial effect: if delete_expense fails part-way, the expense
\* row, all its attachment link rows and all its stored files are still
\* present, also after later operations commit.
C21_FailedDeleteLeavesEverything ==
    fileOp.op = "delete_expense: error" =>
        /\ \E i \in DOMAIN disk.expense : disk.expense[i] = fileOp.row
        /\ \A k \in DOMAIN fileOp.links :
               \E i \in DOMAIN disk.expense_files : disk.expense_files[i] = fileOp.links[k]
        /\ fileOp.files \subseteq DOMAIN storage

\* The part of C21 that the code keeps: a failed delete_expense never
\* leaves the expense row deleted unless the failure was in reading the links.
FailedDeleteKeepsRowUnlessSelectFailed ==
    (fileOp.op = "delete_expense: error" /\ fileOp.fault.at \notin {"select", "commit"}) =>
        \E i \in DOMAIN disk.expense : disk.expense[i] = fileOp.row

\* The DELETE of the expense row failed after the DELETE of the links, and a
\* later commit wrote the deleted links to the file.
PendingDeleteCommitted ==
    /\ fileOp.op = "delete_expense: error"
    /\ fileOp.fault.at = "delete_expense"
    /\ fileOp.links # <<>>
    /\ \E i \in DOMAIN disk.expense : disk.expense[i] = fileOp.row
    /\ \A i \in DOMAIN disk.expense_files : disk.expense_files[i].expense_id # fileOp.expense_id
    /\ income # <<>>

\* -------------------------------------------------- attendance, frame effects

\* The step is a call of `op`; its subject and day are lastCall'.sid, lastCall'.date.
CallOf(op) == ncalls' = ncalls + 1 /\ lastCall'.op = op

\* C22: check_in(S) on a day where a record for (S, today) already exists
\* changes only that record's check-in time: its check-out time, subject and
\* date are unchanged (as is every other record), so a subject who was
\* Checked Out and checks in again is still Checked Out.
C22_ReCheckInChangesOnlyCheckInTime ==
    [][(CallOf("check_in") /\ RowsOf(child_attendance, lastCall'.sid, lastCall'.date) # {})
          => /\ DOMAIN child_attendance' = DOMAIN child_attendance
             /\ \A i \in DOMAIN child_attendance :
                   child_attendance'[i] =
                       IF i \in RowsOf(child_attendance, lastCall'.sid, lastCall'.date)
                       THEN [child_attendance[i] EXCEPT !.check_in_time = Text(lastCall'.time)]
                       ELSE child_attendance[i]
             /\ (AllStatuses[lastCall'.sid, lastCall'.date] = <<"Checked", "Out">>)
                    => (AllStatuses'[lastCall'.sid, lastCall'.date] = <<"Checked", "Out">>)]_vars

\* A child checked out, then checked in a second later: the record holds the
\* new check-in time and the old check-out time, and the child is Checked Out.
C22_Witness ==
    /\ lastCall.op = "check_in"
    /\ prevCall.op = "check_out"
    /\ SameSubjectAndDay
    /\ rechecked
    /\ ChildAttendanceScreen_update_status(lastCall.sid, lastCall.date) = <<"Checked", "Out">>
    /\ \E i \in RowsOf(child_attendance, lastCall.sid, lastCall.date) :
          /\ child_attendance[i].check_in_time = Text(lastCall.time)
          /\ child_attendance[i].check_out_time = Text(prevCall.time)
          /\ lastCall.time # prevCall.time

\* ------------------------------------------------ buttons of the attendance screens

\* C23: the attendance screens merely invoke the data operations: pressing
\* Check-In for a listed child C applies check_in(C), so that afterwards a
\* record for (C, today) with check-in set exists and C is shown as Checked
\* In; pressing Check-Out applies check_out(C); likewise Clock-In / Clock-Out
\* for employees (EmployeeAttendanceScreen.clock_in_employee and
\* clock_out_employee are what those buttons call).
C23_ButtonsApplyTheDataOperations ==
    [][/\ CallOf("press_check_in") =>
            /\ child_attendance' = check_in_child(child_attendance, lastCall'.sid).rows
            /\ \E i \in RowsOf(child_attendance', lastCall'.sid, lastCall'.date) :
                   ~child_attendance'[i].check_in_time.null
            /\ \E i \in DOMAIN listing'.rows :
                   /\ listing'.rows[i].id = lastCall'.sid
                   /\ listing'.rows[i].status \in {<<"Checked", "In">>, <<"Checked", "Out">>}
       /\ CallOf("press_check_out") =>
            child_attendance' = check_out_child(child_attendance, lastCall'.sid).rows
       /\ CallOf("clock_in") =>
            employee_attendance' = check_in_child(employee_attendance, lastCall'.sid).rows
       /\ CallOf("clock_out") =>
            employee_attendance' = check_out_child(employee_attendance, lastCall'.sid).rows]_vars

\* C24: status is never served from a stale copy: whenever the child
\* attendance screen is displayed, it lists exactly the currently enrolled
\* children and each shown status equals the status derived from the current
\* attendance table, also after customers were added, edited or deleted on
\* the customer screen since the attendance screen was built.
C24_DisplayedListIsCurrent ==
    stack = "ChildAttendance" =>
        /\ listing.op = "load_children"
        /\ {listing.rows[i] : i \in DOMAIN listing.rows} = EnrolledWithStatus
        /\ Len(listing.rows) = Cardinality(EnrolledWithStatus)

\* What does hold of the list displayed: it is the list of the last load.
\* Until a customer is added, edited or deleted and until midnight, that is
\* the current one.
DisplayedListIsCurrentWhenBuilt ==
    [][(~Built /\ Built') =>
           /\ {listing'.rows[i] : i \in DOMAIN listing'.rows} = EnrolledWithStatus'
           /\ Len(listing'.rows) = Cardinality(EnrolledWithStatus')]_vars

\* ------------------------------------------------- attendance records stay

\* The (subject, date) pairs that have a record in `rows`
Pairs(rows) == {<<rows[i].child_id, rows[i].date>> : i \in DOMAIN rows}

Ids(rows) == {rows[i].id : i \in DOMAIN rows}

\* C25: no operation removes an attendance record: over any sequence of
\* check_in, check_out, and customer or employee add/update/delete operations,
\* the set of (subject, date) pairs that have a record only grows, and a
\* record survives the deletion of the person it refers to.
C25_AttendanceRecordsOnlyGrow ==
    [][/\ Pairs(child_attendance) \subseteq Pairs(child_attendance')
       /\ Pairs(employee_attendance) \subseteq Pairs(employee_attendance')
       /\ Len(child_attendance') >= Len(child_attendance)
       /\ Len(employee_attendance') >= Len(employee_attendance)]_vars

\* A customer was checked in on two days and then deleted, and the employee
\* of the clock-in in the file was deleted: the records are all there.
C25_Witness ==
    /\ \E i, j \in DOMAIN child_attendance :
          /\ child_attendance[i].child_id = child_attendance[j].child_id
          /\ child_attendance[i].date # child_attendance[j].date
          /\ child_attendance[i].child_id \in assigned \ Ids(customers)
    /\ \E i \in DOMAIN employee_attendance :
          employee_attendance[i].child_id \notin Ids(employees)

\* ---------------------------------------------- attendance, one record a call

\* The records of `rows` other than that of (sid, date), by rowid
Others(rows, sid, date) ==
    {rows[i] : i \in DOMAIN rows \ RowsOf(rows, sid, date)}

\* C26: check_in(S) and check_out(S) executed on day D read and write only
\* the record of (S, D): records of other subjects and records of S on other
\* days are unchanged, so a subject checked in on day D and never checked
\* out that day stays Checked In for D, and check_out(S) on day D+1 without
\* a check-in that day reports NotCheckedIn.
C26_CallsTouchOnlyTheRecordOfSubjectAndDay ==
    [][/\ (CallOf("check_in") \/ CallOf("check_out")) =>
            /\ Others(child_attendance', lastCall'.sid, lastCall'.date)
                   = Others(child_attendance, lastCall'.sid, lastCall'.date)
            /\ \A s \in Subjects, d \in Days :
                   (s # lastCall'.sid \/ d # lastCall'.date)
                       => AllStatuses'[s, d] = AllStatuses[s, d]
       /\ \A s \in Subjects, d \in Days :
              (AllStatuses[s, d] = <<"Checked", "In">>
               /\ ~(CallOf("check_out") /\ lastCall'.sid = s /\ lastCall'.date = d))
                  => AllStatuses'[s, d] = <<"Checked", "In">>
       /\ (CallOf("check_out")
           /\ RowsOf(child_attendance, lastCall'.sid, lastCall'.date) = {})
              => outcome' = "warning: Attendance Error"]_vars

\* A child checked in on one day and not out; the day after, check_out reports
\* that it was not checked in, and the child is still Checked In for the first day.
C26_Witness ==
    /\ lastCall.op = "check_out"
    /\ outcome = "warning: Attendance Error"
    /\ prevCall.op = "check_in"
    /\ prevCall.sid = lastCall.sid
    /\ prevCall.date # lastCall.date
    /\ AllStatuses[lastCall.sid, prevCall.date] = <<"Checked", "In">>
    /\ AllStatuses[lastCall.sid, lastCall.date] = <<"Absent">>

\* C27: in every state reachable through check_in and check_out, a record
\* that has a check-out time also has a check-in time; hence the derived
\* status of (S, D) is Absent exactly when no record for (S, D) exists.
C27_AbsentExactlyWithoutRecord ==
    /\ \A i \in DOMAIN child_attendance :
          /\ Truthy(child_attendance[i].check_in_time)
          /\ ~child_attendance[i].check_out_time.null
                 => Truthy(child_attendance[i].check_out_time)
    /\ \A s \in Subjects, d \in Days :
          (AllStatuses[s, d] = <<"Absent">>) <=> (RowsOf(child_attendance, s, d) = {})

\* A record with both times, a record with a check-in time only, and a
\* subject without a record on some day.
C27_Witness ==
    /\ \E i, j \in DOMAIN child_attendance :
          /\ ~child_attendance[i].check_out_time.null
          /\ child_attendance[j].check_out_time.null
    /\ \E s \in Subjects, d \in Days :
          /\ RowsOf(child_attendance, s, d) = {}
          /\ AllStatuses[s, d] = <<"Absent">>

\* ------------------------------------------------- tax summary, the whole year

\* The date text d lies in the window w, as BETWEEN compares
Within(d, w) == TextLeq(w.start_date, d) /\ TextLeq(d, w.end_date)

\* The first and last day of every quarter of year Y and the days next to the year
QuarterEnds(Y) ==
    {<<Y - 1, 12, 31>>, <<Y + 1, 1, 1>>}
        \cup {<<Y, 3 * q - 2, 1>> : q \in 1..4}
        \cup {<<Y, 3 * q, daysInMonth(Y, 3 * q)>> : q \in 1..4}

\* C28: for every year Y and every table content with well-formed dates, the
\* four quarterly windows are pairwise disjoint and together cover exactly
\* [Y-01-01, Y-12-31], so the four quarterly income (resp. expense) totals
\* add up to the annual income (resp. expense) total of Y.
C28_QuartersAddUpToTheYear ==
    \A y \in {t \in YearTexts : isdigit(t)} :
        \A Y \in {int(y)},
           quarters \in {TaxSummaryScreen_generate_report("Quarterly", y).report.lines},
           annual \in {TaxSummaryScreen_generate_report("Annual", y).report.lines[1]} :
            /\ quarters[1].total_income.num + quarters[2].total_income.num
                   + quarters[3].total_income.num + quarters[4].total_income.num
               = annual.total_income.num
            /\ quarters[1].total_expenses.num + quarters[2].total_expenses.num
                   + quarters[3].total_expenses.num + quarters[4].total_expenses.num
               = annual.total_expenses.num
            /\ \A q \in 1..4 : ~quarters[q].total_income.null /\ ~quarters[q].total_expenses.null
            /\ ~annual.total_income.null /\ ~annual.total_expenses.null
            /\ Y >= 1 =>
                  \A d \in QuarterEnds(Y) : \A text \in {dateToString(d)} :
                      /\ Cardinality({q \in 1..4 : Within(text, quarters[q])})
                             = IF d[1] = Y THEN 1 ELSE 0
                      /\ Within(text, annual) <=> d[1] = Y

\* An income on the last day of the first quarter of 2024 and an expense on
\* the first day of the second, in the quarterly report of 2024.
C28_Witness ==
    /\ report # NoReport
    /\ report.screen = "TaxSummary"
    /\ report.period = "Quarterly"
    /\ report.year = 2024
    /\ report = TaxSummaryScreen_generate_report("Quarterly", <<50, 48, 50, 52>>).report
    /\ Len(income) = 1 /\ Len(expense) = 1
    /\ income[1].date = dateToString(<<2024, 3, 31>>)
    /\ expense[1].date = dateToString(<<2024, 4, 1>>)
    /\ report.lines[1].total_income = Number(income[1].amount)
    /\ report.lines[1].total_expenses = Number(0)
    /\ report.lines[2].total_expenses = Number(expense[1].amount)
    /\ report.lines[2].total_income = Number(0)

\* --------------------------------------------------------------- navigation

\* C29: the application starts on the Login screen, and no screen other than
\* Login is displayed before a validate_user call has accepted: a rejected
\* login leaves the Login screen current, and show_screen with an unknown
\* name leaves the current screen unchanged.
C29_OnlyLoginBeforeAcceptance ==
    /\ login = NoLogin => stack = "Login"
    /\ stack # "Login" =>
          /\ login.op = "handle_login"
          /\ login.result
          /\ validate_user(users, login.username, login.password, login.error).result
    /\ (login.op = "handle_login" /\ ~login.result) => stack = "Login"
    /\ \A screen_name \in CalledNames \ ScreenNames :
          show_screen(stack, screen_name).stack = stack
    /\ stack \in ScreenNames

\* A login with the right username and a wrong password was rejected after
\* the screens were built: the Login screen is still the one shown.
C29_Witness ==
    /\ Built
    /\ login.op = "handle_login"
    /\ ~login.result
    /\ login.username = DefaultUser.username
    /\ login.password # DefaultUser.password
    /\ login.dialogs = <<"warning: Login Failed">>
    /\ stack = "Login"

\* ------------------------------------------------------------- customer ids

\* C30: person identifiers are never reused: over any sequence of
\* add_customer, delete_customer, check_in and check_out, a newly added
\* customer gets an id different from every id ever assigned before, so it
\* never inherits the attendance records left behind by a deleted customer.
C30_CustomerIdsAreNeverReused ==
    [][Len(customers') > Len(customers) =>
          \A id \in Ids(customers') \ Ids(customers) :
              /\ id \notin assigned
              /\ \A i \in DOMAIN child_attendance' : child_attendance'[i].child_id # id
              /\ Ids(customers') = Ids(customers) \cup {id}
              /\ Len(customers') = Len(customers) + 1]_vars

\* Customer 1 was checked in and deleted, and the customer added after it is
\* customer 2, without a record.
C30_Witness ==
    /\ Ids(customers) = {2}
    /\ 1 \in assigned
    /\ \E i \in DOMAIN child_attendance : child_attendance[i].child_id = 1
    /\ \A i \in DOMAIN child_attendance : child_attendance[i].child_id # 2
    /\ AllStatuses[2, Today] = <<"Absent">>

====
